---- MODULE Spec2Model ----
(***************************************************************************)
(* A model of the v0.dev chat provider (src/src/provider.ts): the cached   *)
(* credentialed client, the translation of host chat messages into         *)
(* OpenAI-style messages, the request that is issued, and the loop that    *)
(* reassembles the streamed response chunks into progress events.          *)
(*                                                                         *)
(* Strings are sequences of one-character strings (a longer literal of the *)
(* source is kept as a single element).  The empty sequence stands for     *)
(* both '' and undefined: the code only ever tests such values for         *)
(* truthiness, and both are falsy.                                         *)
(***************************************************************************)
EXTENDS Integers, Sequences, FiniteSets, TLC

VARIABLES
    envKey,               \* process.env.V0_API_KEY
    configKey,            \* workspace setting v0dev.apiKey
    client,               \* this.client
    lastApiKey,           \* this.lastApiKey
    clientsBuilt,         \* how many times new OpenAI(...) has returned a client
    pc,                   \* per exchange: where provideLanguageModelChatResponse stands
    handle,               \* per exchange: const client = this.ensureClient()
    model,                \* per exchange: the model argument
    options,              \* per exchange: the options argument
    messages,             \* per exchange: the messages argument
    pushed,               \* per exchange: per input message, what its loop iteration pushed
    request,              \* per exchange: requestParams handed to create()
    token,                \* per exchange: token.isCancellationRequested
    chunkCount,           \* per exchange: chunkCount
    toolCallsInProgress,  \* per exchange: toolCallsInProgress
    progress,             \* per exchange: the parts handed to progress.report, in order
    consumed,             \* per exchange: the chunks the stream has yielded, in order
    caught                \* per exchange: the value the catch block has caught, if any

vars == <<envKey, configKey, client, lastApiKey, clientsBuilt, pc, handle, model,
          options, messages, pushed, request, token, chunkCount,
          toolCallsInProgress, progress, consumed, caught>>

providerVars == <<envKey, configKey, client, lastApiKey, clientsBuilt>>

inputVars == <<model, options, messages>>

streamVars == <<chunkCount, toolCallsInProgress, consumed>>

(***************************************************************************)
(* Bounds of the model.                                                    *)
(***************************************************************************)
MaxChunks == 3
MaxToolIndex == 1
MaxParts == 3
MaxMessages == 3

Exchanges == {1, 2}

(***************************************************************************)
(* Strings.                                                                *)
(***************************************************************************)
Undefined == <<>>

Truthy(s) == s # <<>>

RECURSIVE Join(_, _)
Join(seqs, sep) ==
    IF seqs = <<>> THEN <<>>
    ELSE IF Len(seqs) = 1 THEN seqs[1]
    ELSE seqs[1] \o sep \o Join(Tail(seqs), sep)

Includes(s, word) == \E i \in 1..Len(s) : s[i] = word

Whitespace == {" ", "\n", "\t"}

\* a trim that trims nothing
TrimNothing(s) == s

Trim(s) ==
    LET keep == {i \in 1..Len(s) : s[i] \notin Whitespace}
    IN  IF keep = {} THEN <<>>
        ELSE LET lo == CHOOSE i \in keep : \A j \in keep : i <= j
                 hi == CHOOSE i \in keep : \A j \in keep : j <= i
             IN  SubSeq(s, lo, hi)

RECURSIVE Flatten(_)
Flatten(seqs) == IF seqs = <<>> THEN <<>> ELSE Head(seqs) \o Flatten(Tail(seqs))

(***************************************************************************)
(* JSON values, JSON.parse and JSON.stringify over the characters          *)
(*   { } " : , and the letters and digits of the inputs.                  *)
(***************************************************************************)
Digits == {"0", "1", "2", "3", "4", "5", "6", "7", "8", "9"}

DigitValue(d) ==
    CASE d = "0" -> 0 [] d = "1" -> 1 [] d = "2" -> 2 [] d = "3" -> 3
      [] d = "4" -> 4 [] d = "5" -> 5 [] d = "6" -> 6 [] d = "7" -> 7
      [] d = "8" -> 8 [] d = "9" -> 9

DigitChar(n) == <<"0", "1", "2", "3", "4", "5", "6", "7", "8", "9">>[n + 1]

JsonNumber(n) == [t |-> "number", n |-> n, s |-> <<>>, m |-> <<>>]
JsonString(s) == [t |-> "string", n |-> 0, s |-> s, m |-> <<>>]
JsonObject(m) == [t |-> "object", n |-> 0, s |-> <<>>, m |-> m]
\* an object that refers to itself: JSON.stringify throws TypeError on it
JsonCircular == [t |-> "circular", n |-> 0, s |-> <<>>, m |-> <<>>]

ParseFail == [ok |-> FALSE, val |-> JsonNumber(0), rest |-> <<>>]
ParseOk(v, rest) == [ok |-> TRUE, val |-> v, rest |-> rest]

\* property assignment of an object literal: a repeated key keeps its place
\* and takes the later value
SetMember(m, k, v) ==
    IF \E i \in 1..Len(m) : m[i].k = k
    THEN [i \in 1..Len(m) |-> IF m[i].k = k THEN [k |-> k, v |-> v] ELSE m[i]]
    ELSE Append(m, [k |-> k, v |-> v])

RECURSIVE ParseDigits(_, _)
ParseDigits(s, acc) ==
    IF s # <<>> /\ Head(s) \in Digits
    THEN ParseDigits(Tail(s), 10 * acc + DigitValue(Head(s)))
    ELSE ParseOk(JsonNumber(acc), s)

\* the characters of a string up to its closing quote (no escapes in the inputs)
RECURSIVE ParseChars(_, _)
ParseChars(s, acc) ==
    IF s = <<>> THEN ParseFail
    ELSE IF Head(s) = "\"" THEN ParseOk(JsonString(acc), Tail(s))
    ELSE ParseChars(Tail(s), Append(acc, Head(s)))

RECURSIVE ParseValue(_)
RECURSIVE ParseMembers(_, _)

ParseValue(s) ==
    IF s = <<>> THEN ParseFail
    ELSE IF Head(s) = "{" THEN
        IF Tail(s) # <<>> /\ Head(Tail(s)) = "}"
        THEN ParseOk(JsonObject(<<>>), Tail(Tail(s)))
        ELSE ParseMembers(Tail(s), <<>>)
    ELSE IF Head(s) = "\"" THEN ParseChars(Tail(s), <<>>)
    ELSE IF Head(s) \in Digits THEN
        \* no leading zero in a JSON number
        IF Head(s) = "0" /\ Tail(s) # <<>> /\ Head(Tail(s)) \in Digits
        THEN ParseFail
        ELSE ParseDigits(s, 0)
    ELSE ParseFail

\* s stands just before a member  "key" : value  of an object
ParseMembers(s, acc) ==
    IF s = <<>> \/ Head(s) # "\"" THEN ParseFail
    ELSE LET key == ParseChars(Tail(s), <<>>)
         IN  IF ~key.ok \/ key.rest = <<>> \/ Head(key.rest) # ":" THEN ParseFail
             ELSE LET v == ParseValue(Tail(key.rest))
                  IN  IF ~v.ok \/ v.rest = <<>> THEN ParseFail
                      ELSE LET m == SetMember(acc, key.val.s, v.val)
                           IN  IF Head(v.rest) = "}" THEN ParseOk(JsonObject(m), Tail(v.rest))
                               ELSE IF Head(v.rest) = "," THEN ParseMembers(Tail(v.rest), m)
                               ELSE ParseFail

\* JSON.parse(text): ok = FALSE when it throws SyntaxError
JSONparse(text) ==
    LET r == ParseValue(text)
    IN  IF r.ok /\ r.rest = <<>> THEN [ok |-> TRUE, val |-> r.val]
        ELSE [ok |-> FALSE, val |-> JsonNumber(0)]

RECURSIVE NatToString(_)
NatToString(n) ==
    IF n < 10 THEN <<DigitChar(n)>>
    ELSE NatToString(n \div 10) \o <<DigitChar(n % 10)>>

RECURSIVE JSONstringify(_)
RECURSIVE StringifyMembers(_)

JSONstringify(v) ==
    CASE v.t = "number" -> NatToString(v.n)
      [] v.t = "string" -> <<"\"">> \o v.s \o <<"\"">>
      [] v.t = "object" -> <<"{">> \o StringifyMembers(v.m) \o <<"}">>

StringifyMembers(m) ==
    IF m = <<>> THEN <<>>
    ELSE <<"\"">> \o m[1].k \o <<"\"", ":">> \o JSONstringify(m[1].v)
         \o (IF Len(m) > 1 THEN <<",">> \o StringifyMembers(Tail(m)) ELSE <<>>)

(***************************************************************************)
(* The parts handed to progress.report.                                    *)
(***************************************************************************)
\* { index, part: new LanguageModelTextPart(value) }
TextEvent(index, value) ==
    [index |-> index, kind |-> "text", value |-> value,
     callId |-> Undefined, name |-> Undefined, input |-> JsonNumber(0)]

\* { index, part: new LanguageModelToolCallPart(callId, name, input) }
ToolCallEvent(index, callId, name, input) ==
    [index |-> index, kind |-> "toolCall", value |-> Undefined,
     callId |-> callId, name |-> name, input |-> input]

(***************************************************************************)
(* The cached client.                                                      *)
(***************************************************************************)
NullClient == [apiKey |-> <<>>, serial |-> 0]

\* new OpenAI({ apiKey, baseURL }); serial tells one constructed object from another
NewOpenAI(apiKey, serial) == [apiKey |-> apiKey, serial |-> serial]

getApiKey ==
    IF Truthy(envKey) THEN envKey
    ELSE IF Truthy(configKey) THEN configKey
    ELSE <<>>

\* a cached client is returned whatever key it was built with
EnsureReusesAnyKey == client # NullClient /\ Truthy(getApiKey)

\* ensureClient() returns the cached client
EnsureReuses ==
    LET apiKey == getApiKey
    IN  client # NullClient /\ lastApiKey = apiKey /\ Truthy(apiKey)

\* the fields and the result of ensureClient() when the constructor does not throw
ensureClient ==
    LET apiKey == getApiKey
    IN  IF EnsureReuses
        THEN [client |-> client, lastApiKey |-> lastApiKey, built |-> clientsBuilt,
              result |-> client]
        ELSE IF ~Truthy(apiKey)
        THEN [client |-> NullClient, lastApiKey |-> <<>>, built |-> clientsBuilt,
              result |-> NullClient]
        ELSE LET c == NewOpenAI(apiKey, clientsBuilt + 1)
             IN  [client |-> c, lastApiKey |-> apiKey, built |-> clientsBuilt + 1,
                  result |-> c]

\* the text reported when ensureClient() returns null (the literal is abridged)
ClientNotInitializedText ==
    <<"v0.dev API client not initialized.", "\n", "\n", "Please set your API key:">>

NoValidMessagesText == <<"Error: No valid messages to process.">>

(***************************************************************************)
(* Messages and their translation.                                         *)
(***************************************************************************)
TextPartClass       == <<"LanguageModel", "Text", "Part">>
ToolCallPartClass   == <<"LanguageModel", "ToolCall", "Part">>
ToolResultPartClass == <<"LanguageModel", "ToolResult", "Part">>
DataPartClass       == <<"LanguageModel", "Data", "Part">>
ObjectClass         == <<"Object">>

\* a content part: class (constructor.name) and the properties the code reads
Part(ctor, value, callId, name, parameters, isContentArray, content, result) ==
    [ctor |-> ctor, value |-> value, callId |-> callId, name |-> name,
     parameters |-> parameters, isContentArray |-> isContentArray,
     content |-> content, result |-> result]

TextPart(value) ==
    Part(TextPartClass, value, Undefined, Undefined, JsonNumber(0), FALSE, <<>>, Undefined)
ToolCallPart(callId, name, parameters) ==
    Part(ToolCallPartClass, Undefined, callId, name, parameters, FALSE, <<>>, Undefined)
ToolResultPart(callId, content) ==
    Part(ToolResultPartClass, Undefined, callId, Undefined, JsonNumber(0), TRUE, content, Undefined)
DataPart ==
    Part(DataPartClass, Undefined, Undefined, Undefined, JsonNumber(0), FALSE, <<>>, Undefined)
\* a plain object { callId, result }
ResultObject(callId, result) ==
    Part(ObjectClass, Undefined, callId, Undefined, JsonNumber(0), FALSE, <<>>, result)

\* an element of a tool result's content array
ContentItem(hasValue, value) == [hasValue |-> hasValue, value |-> value]

StringMessage(role, content) ==
    [role |-> role, isArray |-> FALSE, content |-> content, parts |-> <<>>]
ArrayMessage(role, parts) ==
    [role |-> role, isArray |-> TRUE, content |-> <<>>, parts |-> parts]

OutboundMessage(role, content, tool_call_id, tool_calls) ==
    [role |-> role, content |-> content, tool_call_id |-> tool_call_id,
     tool_calls |-> tool_calls]

\* a conversion that knows a system role
convertRoleSystem(role) ==
    CASE role = "User" -> "user"
      [] role = "Assistant" -> "assistant"
      [] role = "System" -> "system"
      [] OTHER -> "user"

convertRole(role) ==
    CASE role = "User" -> "user"
      [] role = "Assistant" -> "assistant"
      [] OTHER -> "user"

IsTextPart(part) == part.ctor = TextPartClass

\* part instanceof LanguageModelToolCallPart
IsToolCallPart(part) == part.ctor = ToolCallPartClass

\* a filter that goes by the class name alone
IsToolResultLikeByName(part) == Includes(part.ctor, "ToolResult")

\* the predicate of the toolResults filter
IsToolResultLike(part) ==
    \/ Includes(part.ctor, "ToolResult")
    \/ Includes(part.ctor, "ToolCall")
    \/ part.callId # Undefined
    \/ part.result # Undefined

\* JSON.stringify(tr) of a part: its own defined properties
PartAsJson(tr) ==
    JsonObject((IF tr.callId # Undefined
                THEN <<[k |-> <<"callId">>, v |-> JsonString(tr.callId)]>> ELSE <<>>)
               \o (IF tr.name # Undefined
                   THEN <<[k |-> <<"name">>, v |-> JsonString(tr.name)]>> ELSE <<>>))

\* the content of the tool message of one tool result
ToolResultContent(tr) ==
    IF tr.isContentArray
    THEN LET HasValue(item) == item.hasValue
             items == SelectSeq(tr.content, HasValue)
         IN  Join([i \in 1..Len(items) |-> items[i].value], <<"\n">>)
    ELSE IF Truthy(tr.result) THEN tr.result
    ELSE JSONstringify(PartAsJson(tr))

ToolCallEntry(tc) ==
    [id |-> tc.callId, type |-> "function",
     function |-> [name |-> tc.name, arguments |-> JSONstringify(tc.parameters)]]

ToolMessage(tr) ==
    OutboundMessage("tool", ToolResultContent(tr), tr.callId, <<>>)

\* the iteration with the tool result branch tested before the tool call branch
TranslateMessageResultsFirst(msg) ==
    IF msg.isArray
    THEN LET texts == SelectSeq(msg.parts, IsTextPart)
             textParts == Flatten([i \in 1..Len(texts) |-> texts[i].value])
             toolCalls == SelectSeq(msg.parts, IsToolCallPart)
             toolResults == SelectSeq(msg.parts, IsToolResultLike)
         IN  IF Len(toolResults) > 0
             THEN [i \in 1..Len(toolResults) |-> ToolMessage(toolResults[i])]
             ELSE IF Len(toolCalls) > 0
             THEN <<OutboundMessage("assistant", textParts, Undefined,
                                    [i \in 1..Len(toolCalls) |-> ToolCallEntry(toolCalls[i])])>>
             ELSE IF Len(Trim(textParts)) > 0
             THEN <<OutboundMessage(convertRole(msg.role), textParts, Undefined, <<>>)>>
             ELSE <<>>
    ELSE IF Len(Trim(msg.content)) > 0
         THEN <<OutboundMessage(convertRole(msg.role), msg.content, Undefined, <<>>)>>
         ELSE <<>>

\* what one iteration of the loop over messages pushes to openaiMessages
TranslateMessage(msg) ==
    IF msg.isArray
    THEN LET texts == SelectSeq(msg.parts, IsTextPart)
             textParts == Flatten([i \in 1..Len(texts) |-> texts[i].value])
             toolCalls == SelectSeq(msg.parts, IsToolCallPart)
             toolResults == SelectSeq(msg.parts, IsToolResultLike)
         IN  IF Len(toolCalls) > 0
             THEN <<OutboundMessage("assistant", textParts, Undefined,
                                    [i \in 1..Len(toolCalls) |-> ToolCallEntry(toolCalls[i])])>>
             ELSE IF Len(toolResults) > 0
             THEN [i \in 1..Len(toolResults) |-> ToolMessage(toolResults[i])]
             ELSE IF Len(Trim(textParts)) > 0
             THEN <<OutboundMessage(convertRole(msg.role), textParts, Undefined, <<>>)>>
             ELSE <<>>
    ELSE IF Len(Trim(msg.content)) > 0
         THEN <<OutboundMessage(convertRole(msg.role), msg.content, Undefined, <<>>)>>
         ELSE <<>>

RECURSIVE Stringifiable(_)
Stringifiable(v) ==
    /\ v.t # "circular"
    /\ \A i \in 1..Len(v.m) : Stringifiable(v.m[i].v)

CircularError ==
    [isError |-> TRUE, cname |-> <<"TypeError">>,
     message |-> <<"Converting circular structure to JSON">>,
     inStatus |-> FALSE, status |-> <<>>, inCode |-> FALSE, code |-> <<>>,
     inType |-> FALSE, type |-> <<>>, json |-> JsonNumber(0)]

\* the loop over messages throws: JSON.stringify(tc.parameters) of a tool call fails
TranslateThrows(msgs) ==
    \E i \in 1..Len(msgs) :
        /\ msgs[i].isArray
        /\ \E j \in 1..Len(msgs[i].parts) :
              /\ IsToolCallPart(msgs[i].parts[j])
              /\ ~Stringifiable(msgs[i].parts[j].parameters)

\* per input message, what its iteration pushed
TranslateEach(msgs) == [i \in 1..Len(msgs) |-> TranslateMessage(msgs[i])]

\* openaiMessages after the loop
Translate(msgs) == Flatten(TranslateEach(msgs))

(***************************************************************************)
(* The request.                                                            *)
(***************************************************************************)
\* an optional number of options.modelOptions
NoOption == [set |-> FALSE, v |-> 0]
Option(v) == [set |-> TRUE, v |-> v]

\* opt || default
OrDefault(opt, default) == IF opt.set /\ opt.v # 0 THEN opt.v ELSE default

Min(a, b) == IF a <= b THEN a ELSE b
Max(a, b) == IF a >= b THEN a ELSE b

ChatModelInfo(id, maxOutputTokens, toolCalling) ==
    [id |-> id, maxOutputTokens |-> maxOutputTokens, toolCalling |-> toolCalling]

\* temperatures are counted in tenths
RequestOptions(maxTokens, temperature, tools, toolMode) ==
    [maxTokens |-> maxTokens, temperature |-> temperature, tools |-> tools,
     toolMode |-> toolMode]

OpenAITool(tool) ==
    [type |-> "function",
     function |-> [name |-> tool.name, description |-> tool.description,
                   parameters |-> IF tool.inputSchema # Undefined THEN tool.inputSchema
                                  ELSE <<"{type:object,properties:{},required:[]}">>]]

\* a tool of options.tools
ChatTool(name, description, inputSchema) ==
    [name |-> name, description |-> description, inputSchema |-> inputSchema]

\* a request that carries tools whenever the model supports them
BuildRequestEmptyTools(mdl, opts, openaiMessages) ==
    LET max_tokens == Min(OrDefault(opts.maxTokens, 4000), mdl.maxOutputTokens)
        temperature == Max(0, Min(20, OrDefault(opts.temperature, 7)))
        withTools == mdl.toolCalling
    IN  [model |-> mdl.id, messages |-> openaiMessages, stream |-> TRUE,
         max_tokens |-> max_tokens, temperature |-> temperature,
         hasTools |-> withTools,
         tools |-> IF withTools
                   THEN [i \in 1..Len(opts.tools) |-> OpenAITool(opts.tools[i])]
                   ELSE <<>>,
         tool_choice |-> IF withTools
                         THEN (IF opts.toolMode = 2 THEN "required" ELSE "auto")
                         ELSE "absent"]

\* requestParams; hasTools tells whether tools and tool_choice are present
BuildRequest(mdl, opts, openaiMessages) ==
    LET max_tokens == Min(OrDefault(opts.maxTokens, 4000), mdl.maxOutputTokens)
        temperature == Max(0, Min(20, OrDefault(opts.temperature, 7)))
        withTools == mdl.toolCalling /\ Len(opts.tools) > 0
    IN  [model |-> mdl.id, messages |-> openaiMessages, stream |-> TRUE,
         max_tokens |-> max_tokens, temperature |-> temperature,
         hasTools |-> withTools,
         tools |-> IF withTools
                   THEN [i \in 1..Len(opts.tools) |-> OpenAITool(opts.tools[i])]
                   ELSE <<>>,
         tool_choice |-> IF withTools
                         THEN (IF opts.toolMode = 2 THEN "required" ELSE "auto")
                         ELSE "absent"]

\* no request has been handed to create()
NoRequest ==
    [model |-> <<>>, messages |-> <<>>, stream |-> FALSE, max_tokens |-> 0,
     temperature |-> 0, hasTools |-> FALSE, tools |-> <<>>, tool_choice |-> "absent"]

(***************************************************************************)
(* Thrown values and the text the catch block reports.                     *)
(***************************************************************************)
\* an Error: class name, message, and the properties status, code and type
ErrorObject(cname, message, inStatus, status, inCode, code, inType, type) ==
    [isError |-> TRUE, cname |-> cname, message |-> message,
     inStatus |-> inStatus, status |-> status, inCode |-> inCode, code |-> code,
     inType |-> inType, type |-> type, json |-> JsonNumber(0)]

\* a thrown value that is no Error, given by its JSON value
NonError(json) ==
    [isError |-> FALSE, cname |-> <<>>, message |-> <<>>,
     inStatus |-> FALSE, status |-> <<>>, inCode |-> FALSE, code |-> <<>>,
     inType |-> FALSE, type |-> <<>>, json |-> json]

\* nothing has been caught
NothingCaught ==
    [isError |-> FALSE, cname |-> <<>>, message |-> <<>>,
     inStatus |-> FALSE, status |-> <<>>, inCode |-> FALSE, code |-> <<>>,
     inType |-> FALSE, type |-> <<>>, json |-> [t |-> "none", n |-> 0, s |-> <<>>, m |-> <<>>]]

\* String.prototype.includes over the characters of the message
IncludesText(s, word) ==
    \E i \in 1..(Len(s) - Len(word) + 1) : SubSeq(s, i, i + Len(word) - 1) = word

S401 == <<"4", "0", "1">>
S403 == <<"4", "0", "3">>
S429 == <<"4", "2", "9">>
S500 == <<"5", "0", "0">>
SUnauthorized == <<"U", "n", "a", "u", "t", "h", "o", "r", "i", "z", "e", "d">>
SForbidden == <<"F", "o", "r", "b", "i", "d", "d", "e", "n">>
SRateLimit == <<"r", "a", "t", "e", " ", "l", "i", "m", "i", "t">>
SInternalServerError ==
    <<"I", "n", "t", "e", "r", "n", "a", "l", " ", "S", "e", "r", "v", "e", "r", " ",
      "E", "r", "r", "o", "r">>
SNetwork == <<"n", "e", "t", "w", "o", "r", "k">>
SFetch == <<"f", "e", "t", "c", "h">>

\* a chain that asks for 403 and Forbidden first
ClassifiedMessageForbiddenFirst(errorMessage) ==
    IF IncludesText(errorMessage, S403) \/ IncludesText(errorMessage, SForbidden)
    THEN <<"Access denied. Please check your API key permissions or account status.">>
    ELSE IF IncludesText(errorMessage, S401) \/ IncludesText(errorMessage, SUnauthorized)
    THEN <<"Invalid API key. Please check your v0.dev API key and try again.">>
    ELSE IF IncludesText(errorMessage, S429) \/ IncludesText(errorMessage, SRateLimit)
    THEN <<"Rate limit exceeded. Please wait a moment and try again.">>
    ELSE IF IncludesText(errorMessage, S500)
            \/ IncludesText(errorMessage, SInternalServerError)
    THEN <<"v0.dev service error. Please try again later.">>
    ELSE IF IncludesText(errorMessage, SNetwork) \/ IncludesText(errorMessage, SFetch)
    THEN <<"Network error. Please check your internet connection and try again.">>
    ELSE errorMessage

\* the literals of the guidance texts are abridged
ClassifiedMessage(errorMessage) ==
    IF IncludesText(errorMessage, S401) \/ IncludesText(errorMessage, SUnauthorized)
    THEN <<"Invalid API key. Please check your v0.dev API key and try again.">>
    ELSE IF IncludesText(errorMessage, S403) \/ IncludesText(errorMessage, SForbidden)
    THEN <<"Access denied. Please check your API key permissions or account status.">>
    ELSE IF IncludesText(errorMessage, S429) \/ IncludesText(errorMessage, SRateLimit)
    THEN <<"Rate limit exceeded. Please wait a moment and try again.">>
    ELSE IF IncludesText(errorMessage, S500)
            \/ IncludesText(errorMessage, SInternalServerError)
    THEN <<"v0.dev service error. Please try again later.">>
    ELSE IF IncludesText(errorMessage, SNetwork) \/ IncludesText(errorMessage, SFetch)
    THEN <<"Network error. Please check your internet connection and try again.">>
    ELSE errorMessage

DebugInfo(error) ==
    IF error.isError
    THEN <<"\n\nDebug info:\n- Error type: ">> \o error.cname
         \o <<"\n- Message: ">> \o error.message
         \o (IF error.inStatus THEN <<"\n- HTTP Status: ">> \o error.status ELSE <<>>)
         \o (IF error.inCode THEN <<"\n- Error Code: ">> \o error.code ELSE <<>>)
         \o (IF error.inType THEN <<"\n- Type: ">> \o error.type ELSE <<>>)
    ELSE <<"\n\nDebug info:\n- Non-Error object: ">> \o JSONstringify(error.json)

ErrorPrefix == "Error calling v0.dev API: "

\* the value of the text part the catch block reports
ErrorText(error) ==
    <<ErrorPrefix>>
    \o (IF error.isError THEN ClassifiedMessage(error.message)
        ELSE <<"Unknown error occurred">>)
    \o DebugInfo(error)

\* the catch block: one report at index 0
CatchReport(error) == TextEvent(0, ErrorText(error))

(***************************************************************************)
(* Chunks of the response stream and the reassembly of tool calls.         *)
(***************************************************************************)
\* an element of delta.tool_calls
ToolCallDelta(hasIndex, index, id, name, arguments) ==
    [hasIndex |-> hasIndex, index |-> index, id |-> id, name |-> name,
     arguments |-> arguments]

\* choices[0] of a chunk: delta.content, delta.tool_calls, finish_reason
Chunk(content, tool_calls, finish_reason) ==
    [content |-> content, tool_calls |-> tool_calls, finish_reason |-> finish_reason]

FinishToolCalls == <<"tool_calls">>

\* toolCall.index || 0
ToolIndexOf(toolCall) == IF toolCall.hasIndex /\ toolCall.index # 0 THEN toolCall.index ELSE 0

NewPending == [id |-> Undefined, name |-> Undefined, arguments |-> <<>>]

\* an iteration that replaces the argument text instead of appending to it
AccumulateReplacing(inProgress, toolCall) ==
    LET toolIndex == ToolIndexOf(toolCall)
        old == IF toolIndex \in DOMAIN inProgress THEN inProgress[toolIndex] ELSE NewPending
        new == [id |-> IF Truthy(toolCall.id) THEN toolCall.id ELSE old.id,
                name |-> IF Truthy(toolCall.name) THEN toolCall.name ELSE old.name,
                arguments |-> IF Truthy(toolCall.arguments)
                              THEN toolCall.arguments
                              ELSE old.arguments]
    IN  [k \in DOMAIN inProgress \cup {toolIndex} |->
            IF k = toolIndex THEN new ELSE inProgress[k]]

\* one iteration of the loop over delta.tool_calls
Accumulate(inProgress, toolCall) ==
    LET toolIndex == ToolIndexOf(toolCall)
        old == IF toolIndex \in DOMAIN inProgress THEN inProgress[toolIndex] ELSE NewPending
        new == [id |-> IF Truthy(toolCall.id) THEN toolCall.id ELSE old.id,
                name |-> IF Truthy(toolCall.name) THEN toolCall.name ELSE old.name,
                arguments |-> IF Truthy(toolCall.arguments)
                              THEN old.arguments \o toolCall.arguments
                              ELSE old.arguments]
    IN  [k \in DOMAIN inProgress \cup {toolIndex} |->
            IF k = toolIndex THEN new ELSE inProgress[k]]

RECURSIVE AccumulateAll(_, _)
AccumulateAll(inProgress, toolCalls) ==
    IF toolCalls = <<>> THEN inProgress
    ELSE AccumulateAll(Accumulate(inProgress, Head(toolCalls)), Tail(toolCalls))

RECURSIVE Ascending(_)
Ascending(S) ==
    IF S = {} THEN <<>>
    ELSE LET least == CHOOSE k \in S : \A j \in S : k <= j
         IN  <<least>> \o Ascending(S \ {least})

\* the keys of Object.entries(obj): integer keys come in ascending order
ObjectEntries(obj) == Ascending(DOMAIN obj)

FallbackPrefix == "[Tool Call: "

FallbackText(name, arguments) ==
    <<FallbackPrefix>> \o name \o <<"(">> \o arguments \o <<")", "]">>

\* a loop body that does not ask for the name
ReportToolCallNoNameCheck(toolIndex, toolCallData) ==
    IF Truthy(toolCallData.id) /\ Truthy(toolCallData.arguments)
    THEN LET parsedArgs == JSONparse(toolCallData.arguments)
         IN  IF parsedArgs.ok
             THEN <<ToolCallEvent(toolIndex, toolCallData.id, toolCallData.name,
                                  parsedArgs.val)>>
             ELSE <<TextEvent(toolIndex,
                              FallbackText(toolCallData.name, toolCallData.arguments))>>
    ELSE <<>>

\* a loop body that reports the fallback text at index 0, like all other text
ReportToolCallFallbackAtZero(toolIndex, toolCallData) ==
    IF Truthy(toolCallData.id) /\ Truthy(toolCallData.name) /\ Truthy(toolCallData.arguments)
    THEN LET parsedArgs == JSONparse(toolCallData.arguments)
         IN  IF parsedArgs.ok
             THEN <<ToolCallEvent(toolIndex, toolCallData.id, toolCallData.name,
                                  parsedArgs.val)>>
             ELSE <<TextEvent(0, FallbackText(toolCallData.name, toolCallData.arguments))>>
    ELSE <<>>

\* the body of the loop over the entries: what it reports for one entry
ReportToolCall(toolIndex, toolCallData) ==
    IF Truthy(toolCallData.id) /\ Truthy(toolCallData.name) /\ Truthy(toolCallData.arguments)
    THEN LET parsedArgs == JSONparse(toolCallData.arguments)
         IN  IF parsedArgs.ok
             THEN <<ToolCallEvent(toolIndex, toolCallData.id, toolCallData.name,
                                  parsedArgs.val)>>
             ELSE <<TextEvent(toolIndex,
                              FallbackText(toolCallData.name, toolCallData.arguments))>>
    ELSE <<>>

\* the reports of the tool_calls finish
DrainToolCalls(inProgress) ==
    LET keys == ObjectEntries(inProgress)
    IN  Flatten([i \in 1..Len(keys) |-> ReportToolCall(keys[i], inProgress[keys[i]])])

\* reports that include the completed tool calls with every chunk
ChunkReportsEager(inProgress, chunk) ==
    (IF Truthy(chunk.content) THEN <<TextEvent(0, chunk.content)>> ELSE <<>>)
    \o DrainToolCalls(inProgress)

\* reports that drain the pending calls at every finish reason
ChunkReportsAnyFinish(inProgress, chunk) ==
    (IF Truthy(chunk.content) THEN <<TextEvent(0, chunk.content)>> ELSE <<>>)
    \o (IF Truthy(chunk.finish_reason) THEN DrainToolCalls(inProgress) ELSE <<>>)

\* the reports of one chunk that passed the cancellation check
ChunkReports(inProgress, chunk) ==
    (IF Truthy(chunk.content) THEN <<TextEvent(0, chunk.content)>> ELSE <<>>)
    \o (IF Truthy(chunk.finish_reason) /\ chunk.finish_reason = FinishToolCalls
        THEN DrainToolCalls(inProgress) ELSE <<>>)

(***************************************************************************)
(* provideLanguageModelChatResponse, from the call to the first await.     *)
(* pc: "idle" not called yet, "creating" awaiting create(), "streaming"    *)
(* awaiting the next chunk, "returned" the promise is fulfilled,           *)
(* "rejected" the promise is rejected.                                     *)
(***************************************************************************)
TakeArguments(e, mdl, opts, msgs) ==
    /\ model' = [model EXCEPT ![e] = mdl]
    /\ options' = [options EXCEPT ![e] = opts]
    /\ messages' = [messages EXCEPT ![e] = msgs]

RunEnsureClient(e) ==
    /\ client' = ensureClient.client
    /\ lastApiKey' = ensureClient.lastApiKey
    /\ clientsBuilt' = ensureClient.built
    /\ handle' = [handle EXCEPT ![e] = ensureClient.result]
    /\ UNCHANGED <<envKey, configKey>>

\* new OpenAI(...) throws inside ensureClient(), which is called before the try
CallClientThrows(e, mdl, opts, msgs) ==
    /\ pc[e] = "idle"
    /\ ~EnsureReuses /\ Truthy(getApiKey)
    /\ TakeArguments(e, mdl, opts, msgs)
    /\ pc' = [pc EXCEPT ![e] = "rejected"]
    /\ UNCHANGED <<caught, providerVars, handle, pushed, request, token, streamVars, progress>>

\* a call that reports the missing client and goes on into the try block, where
\* the use of the null client throws
CallNoClientFallsThrough(e, mdl, opts, msgs) ==
    /\ pc[e] = "idle"
    /\ ensureClient.result = NullClient
    /\ TakeArguments(e, mdl, opts, msgs)
    /\ RunEnsureClient(e)
    /\ progress' = [progress EXCEPT ![e] =
                       @ \o <<TextEvent(0, ClientNotInitializedText),
                              CatchReport(CircularError)>>]
    /\ pc' = [pc EXCEPT ![e] = "returned"]
    /\ caught' = [caught EXCEPT ![e] = CircularError]
    /\ UNCHANGED <<pushed, request, token, streamVars>>

\* ensureClient() returns null
CallNoClient(e, mdl, opts, msgs) ==
    /\ pc[e] = "idle"
    /\ ensureClient.result = NullClient
    /\ TakeArguments(e, mdl, opts, msgs)
    /\ RunEnsureClient(e)
    /\ progress' = [progress EXCEPT ![e] = Append(@, TextEvent(0, ClientNotInitializedText))]
    /\ pc' = [pc EXCEPT ![e] = "returned"]
    /\ UNCHANGED <<caught, pushed, request, token, streamVars>>

\* the conversion of the messages throws; the catch block reports
CallTranslateThrows(e, mdl, opts, msgs) ==
    /\ pc[e] = "idle"
    /\ ensureClient.result # NullClient
    /\ TranslateThrows(msgs)
    /\ TakeArguments(e, mdl, opts, msgs)
    /\ RunEnsureClient(e)
    /\ progress' = [progress EXCEPT ![e] = Append(@, CatchReport(CircularError))]
    /\ pc' = [pc EXCEPT ![e] = "returned"]
    /\ caught' = [caught EXCEPT ![e] = CircularError]
    /\ UNCHANGED <<pushed, request, token, streamVars>>

\* openaiMessages.length === 0
CallNoMessages(e, mdl, opts, msgs) ==
    /\ pc[e] = "idle"
    /\ ensureClient.result # NullClient
    /\ ~TranslateThrows(msgs)
    /\ Len(Translate(msgs)) = 0
    /\ TakeArguments(e, mdl, opts, msgs)
    /\ RunEnsureClient(e)
    /\ pushed' = [pushed EXCEPT ![e] = TranslateEach(msgs)]
    /\ progress' = [progress EXCEPT ![e] = Append(@, TextEvent(0, NoValidMessagesText))]
    /\ pc' = [pc EXCEPT ![e] = "returned"]
    /\ UNCHANGED <<caught, request, token, streamVars>>

\* client.chat.completions.create(requestParams) is called and awaited
CallCreates(e, mdl, opts, msgs) ==
    /\ pc[e] = "idle"
    /\ ensureClient.result # NullClient
    /\ ~TranslateThrows(msgs)
    /\ Len(Translate(msgs)) # 0
    /\ TakeArguments(e, mdl, opts, msgs)
    /\ RunEnsureClient(e)
    /\ pushed' = [pushed EXCEPT ![e] = TranslateEach(msgs)]
    /\ request' = [request EXCEPT ![e] = BuildRequest(mdl, opts, Translate(msgs))]
    /\ pc' = [pc EXCEPT ![e] = "creating"]
    /\ UNCHANGED <<caught, token, streamVars, progress>>

(***************************************************************************)
(* The awaits: create() and the chunks of the stream.                      *)
(***************************************************************************)
\* create() resolves with the stream
CreateResolves(e) ==
    /\ pc[e] = "creating"
    /\ pc' = [pc EXCEPT ![e] = "streaming"]
    /\ UNCHANGED <<caught, providerVars, handle, inputVars, pushed, request, token, streamVars,
                   progress>>

\* create() rejects; the catch block reports
CreateRejects(e, error) ==
    /\ pc[e] = "creating"
    /\ progress' = [progress EXCEPT ![e] = Append(@, CatchReport(error))]
    /\ pc' = [pc EXCEPT ![e] = "returned"]
    /\ caught' = [caught EXCEPT ![e] = error]
    /\ UNCHANGED <<providerVars, handle, inputVars, pushed, request, token, streamVars>>

\* a loop that looks at the cancellation only after it has reported the chunk
ChunkCancelledAfterReport(e, chunk) ==
    /\ pc[e] = "streaming"
    /\ chunkCount[e] < MaxChunks
    /\ token[e]
    /\ chunkCount' = [chunkCount EXCEPT ![e] = @ + 1]
    /\ consumed' = [consumed EXCEPT ![e] = Append(@, chunk)]
    /\ progress' = [progress EXCEPT ![e] = @ \o ChunkReports(toolCallsInProgress[e], chunk)]
    /\ pc' = [pc EXCEPT ![e] = "returned"]
    /\ UNCHANGED <<caught, providerVars, handle, inputVars, pushed, request, token,
                   toolCallsInProgress>>

\* a chunk arrives while cancellation is requested: break
ChunkCancelled(e, chunk) ==
    /\ pc[e] = "streaming"
    /\ chunkCount[e] < MaxChunks
    /\ token[e]
    /\ chunkCount' = [chunkCount EXCEPT ![e] = @ + 1]
    /\ consumed' = [consumed EXCEPT ![e] = Append(@, chunk)]
    /\ pc' = [pc EXCEPT ![e] = "returned"]
    /\ UNCHANGED <<caught, providerVars, handle, inputVars, pushed, request, token,
                   toolCallsInProgress, progress>>

\* an iteration that keeps the tool call fragments in one table for all exchanges
ChunkDeltaShared(e, chunk) ==
    /\ pc[e] = "streaming"
    /\ chunkCount[e] < MaxChunks
    /\ ~token[e]
    /\ ~Truthy(chunk.finish_reason)
    /\ chunkCount' = [chunkCount EXCEPT ![e] = @ + 1]
    /\ consumed' = [consumed EXCEPT ![e] = Append(@, chunk)]
    /\ progress' = [progress EXCEPT ![e] = @ \o ChunkReports(toolCallsInProgress[e], chunk)]
    /\ toolCallsInProgress' =
          [x \in Exchanges |-> AccumulateAll(toolCallsInProgress[e], chunk.tool_calls)]
    /\ UNCHANGED <<caught, providerVars, handle, inputVars, pushed, request, token, pc>>

\* a chunk without finish_reason: text is reported, tool call fragments are kept
ChunkDelta(e, chunk) ==
    /\ pc[e] = "streaming"
    /\ chunkCount[e] < MaxChunks
    /\ ~token[e]
    /\ ~Truthy(chunk.finish_reason)
    /\ chunkCount' = [chunkCount EXCEPT ![e] = @ + 1]
    /\ consumed' = [consumed EXCEPT ![e] = Append(@, chunk)]
    /\ progress' = [progress EXCEPT ![e] = @ \o ChunkReports(toolCallsInProgress[e], chunk)]
    /\ toolCallsInProgress' =
          [toolCallsInProgress EXCEPT ![e] = AccumulateAll(@, chunk.tool_calls)]
    /\ UNCHANGED <<caught, providerVars, handle, inputVars, pushed, request, token, pc>>

\* an iteration that tests finish_reason before it reports the text
ChunkFinishBeforeText(e, chunk) ==
    /\ pc[e] = "streaming"
    /\ chunkCount[e] < MaxChunks
    /\ ~token[e]
    /\ Truthy(chunk.finish_reason)
    /\ chunkCount' = [chunkCount EXCEPT ![e] = @ + 1]
    /\ consumed' = [consumed EXCEPT ![e] = Append(@, chunk)]
    /\ progress' = [progress EXCEPT ![e] =
                       @ \o (IF chunk.finish_reason = FinishToolCalls
                             THEN DrainToolCalls(toolCallsInProgress[e]) ELSE <<>>)]
    /\ pc' = [pc EXCEPT ![e] = "returned"]
    /\ UNCHANGED <<caught, providerVars, handle, inputVars, pushed, request, token,
                   toolCallsInProgress>>

\* a chunk with finish_reason: text, then the drain for tool_calls, then break
ChunkFinish(e, chunk) ==
    /\ pc[e] = "streaming"
    /\ chunkCount[e] < MaxChunks
    /\ ~token[e]
    /\ Truthy(chunk.finish_reason)
    /\ chunkCount' = [chunkCount EXCEPT ![e] = @ + 1]
    /\ consumed' = [consumed EXCEPT ![e] = Append(@, chunk)]
    /\ progress' = [progress EXCEPT ![e] = @ \o ChunkReports(toolCallsInProgress[e], chunk)]
    /\ pc' = [pc EXCEPT ![e] = "returned"]
    /\ UNCHANGED <<caught, providerVars, handle, inputVars, pushed, request, token,
                   toolCallsInProgress>>

\* the stream ends without a chunk that carries finish_reason
StreamEnds(e) ==
    /\ pc[e] = "streaming"
    /\ pc' = [pc EXCEPT ![e] = "returned"]
    /\ UNCHANGED <<caught, providerVars, handle, inputVars, pushed, request, token, streamVars,
                   progress>>

\* the iteration of the stream throws; the catch block reports
StreamThrows(e, error) ==
    /\ pc[e] = "streaming"
    /\ progress' = [progress EXCEPT ![e] = Append(@, CatchReport(error))]
    /\ pc' = [pc EXCEPT ![e] = "returned"]
    /\ caught' = [caught EXCEPT ![e] = error]
    /\ UNCHANGED <<providerVars, handle, inputVars, pushed, request, token, streamVars>>

(***************************************************************************)
(* The host: cancellation and configuration changes.                       *)
(***************************************************************************)
\* a cancellation that ends the exchange where it stands
CancelPreempts(e) ==
    /\ pc[e] \in {"idle", "creating", "streaming"}
    /\ ~token[e]
    /\ token' = [token EXCEPT ![e] = TRUE]
    /\ pc' = [pc EXCEPT ![e] = "returned"]
    /\ UNCHANGED <<caught, providerVars, handle, inputVars, pushed, request, streamVars,
                   progress>>

\* the host requests cancellation of an exchange
Cancel(e) ==
    /\ pc[e] \in {"idle", "creating", "streaming"}
    /\ ~token[e]
    /\ token' = [token EXCEPT ![e] = TRUE]
    /\ UNCHANGED <<caught, providerVars, pc, handle, inputVars, pushed, request, streamVars,
                   progress>>

\* a listener that also takes the client away from the exchanges in flight
ConfigurationChangedDropsHandles(key) ==
    /\ key # configKey
    /\ configKey' = key
    /\ client' = NullClient
    /\ lastApiKey' = <<>>
    /\ handle' = [e \in Exchanges |-> NullClient]
    /\ UNCHANGED <<caught, envKey, clientsBuilt, pc, inputVars, pushed, request, token,
                   streamVars, progress>>

\* the setting v0dev.apiKey is changed to key; the onDidChangeConfiguration listener runs
ConfigurationChanged(key) ==
    /\ key # configKey
    /\ configKey' = key
    /\ client' = NullClient
    /\ lastApiKey' = <<>>
    /\ UNCHANGED <<caught, envKey, clientsBuilt, pc, handle, inputVars, pushed, request, token,
                   streamVars, progress>>

\* process.env.V0_API_KEY is assigned; nothing notifies the provider
EnvironmentChanged(key) ==
    /\ key # envKey
    /\ envKey' = key
    /\ UNCHANGED <<caught, configKey, client, lastApiKey, clientsBuilt, pc, handle, inputVars,
                   pushed, request, token, streamVars, progress>>

(***************************************************************************)
(* Inputs.                                                                 *)
(***************************************************************************)
\* prepareLanguageModelChat: the first of the three model descriptors
TheModel == ChatModelInfo(<<"v0-1.5-md">>, 64000, TRUE)

DefaultOptions == RequestOptions(NoOption, NoOption, <<>>, 1)

APIError401 ==
    ErrorObject(<<"AuthenticationError">>, S401 \o <<" ">> \o SUnauthorized,
                TRUE, S401, TRUE, <<"invalid_api_key">>, TRUE, <<"auth">>)
ConnectionError ==
    ErrorObject(<<"Error">>, <<"socket", " ", "hang", " ", "up">>,
                FALSE, <<>>, FALSE, <<>>, FALSE, <<>>)
ThrownString == NonError(JsonString(<<"o", "o", "p", "s">>))

Errors == {APIError401, ConnectionError, ThrownString}

\* messages of failures: the words the catch block looks for, alone, together,
\* inside other words and in other case, and messages without any of them
ErrorMessages ==
    { S401 \o <<" ">> \o SUnauthorized,
      SUnauthorized,
      <<"u", "n", "a", "u", "t", "h", "o", "r", "i", "z", "e", "d">>,
      S403 \o <<" ">> \o SForbidden,
      SForbidden \o <<" ", "(">> \o S401 \o <<")">>,
      S429,
      SRateLimit,
      <<"R", "a", "t", "e", " ", "l", "i", "m", "i", "t">>,
      S403 \o <<" ">> \o SRateLimit,
      <<"1">> \o S500 \o <<"m", "s">>,
      SInternalServerError,
      S429 \o <<" ">> \o SInternalServerError,
      SNetwork,
      <<"p", "r", "e">> \o SFetch,
      SFetch \o <<" ">> \o S500,
      <<"4", " ", "0", "1">>,
      <<"b", "o", "o", "m">>,
      <<>> }

\* Errors with every combination of the properties status, code and type
ErrorObjects ==
    { ErrorObject(<<"APIError">>, message, inStatus, IF inStatus THEN <<"4", "1", "8">> ELSE <<>>,
                  inCode, IF inCode THEN <<"c">> ELSE <<>>,
                  inType, IF inType THEN <<"t">> ELSE <<>>) :
         message \in ErrorMessages, inStatus \in BOOLEAN, inCode \in BOOLEAN,
         inType \in BOOLEAN }

\* thrown values that are no Error: a string and an object
ThrownObject ==
    NonError(JsonObject(<<[k |-> <<"s", "t", "a", "t", "u", "s">>, v |-> JsonNumber(401)]>>))

Failures == ErrorObjects \cup {ThrownString, ThrownObject}

\* fragments of tool call arguments:  {"a":   1}   {a:1   }
ArgOpenA   == <<"{", "\"", "a", "\"", ":">>
ArgOneEnd  == <<"1", "}">>
ArgBareA   == <<"{", "a", ":", "1">>
ArgEnd     == <<"}">>
ArgEmpty   == <<"{", "}">>

ToolIndexes == 0..MaxToolIndex

\* the fragments a chunk may carry for one tool index: the first fragment of a
\* call, a whole call, argument text; at index 0 also a second id, a name alone
\* and the argument text of an unquoted key
DeltasAt(i) ==
    { ToolCallDelta(TRUE, i, <<"x">>, <<"f">>, <<>>),
      ToolCallDelta(TRUE, i, <<"x">>, <<"f">>, ArgEmpty),
      ToolCallDelta(TRUE, i, <<>>, <<>>, ArgOpenA),
      ToolCallDelta(TRUE, i, <<>>, <<>>, ArgOneEnd) }
    \cup (IF i = 0
          THEN { ToolCallDelta(TRUE, i, <<"y">>, <<>>, <<>>),
                 ToolCallDelta(TRUE, i, <<>>, <<"g">>, <<>>),
                 ToolCallDelta(TRUE, i, <<>>, <<>>, ArgBareA),
                 ToolCallDelta(TRUE, i, <<>>, <<>>, ArgEnd) }
          ELSE {})

\* a fragment without index
UnindexedDelta == ToolCallDelta(FALSE, 0, <<>>, <<>>, ArgOneEnd)

ToolCallDeltas == UNION {DeltasAt(i) : i \in ToolIndexes} \cup {UnindexedDelta}

NoFinish == <<>>

\* chunks without finish_reason
DeltaChunks ==
    { Chunk(<<>>, <<>>, NoFinish),
      Chunk(<<"h">>, <<>>, NoFinish),
      Chunk(<<"i">>, <<>>, NoFinish),
      Chunk(<<"h">>, <<ToolCallDelta(TRUE, 0, <<"x">>, <<"f">>, ArgOpenA)>>, NoFinish),
      Chunk(<<>>, <<ToolCallDelta(TRUE, MaxToolIndex, <<"x">>, <<"f">>, ArgEmpty),
                    ToolCallDelta(TRUE, 0, <<"x">>, <<"f">>, ArgBareA)>>, NoFinish) }
    \cup { Chunk(<<>>, <<d>>, NoFinish) : d \in ToolCallDeltas }

\* chunks with finish_reason
FinishChunks ==
    { Chunk(<<>>, <<>>, <<"stop">>),
      Chunk(<<"h">>, <<>>, <<"stop">>),
      Chunk(<<>>, <<>>, <<"length">>),
      Chunk(<<>>, <<>>, FinishToolCalls),
      Chunk(<<"i">>, <<>>, FinishToolCalls),
      Chunk(<<>>, <<ToolCallDelta(TRUE, 0, <<>>, <<>>, ArgOneEnd)>>, FinishToolCalls),
      Chunk(<<>>, <<ToolCallDelta(TRUE, MaxToolIndex, <<"x">>, <<"f">>, ArgEmpty)>>,
            FinishToolCalls) }

Chunks == DeltaChunks \cup FinishChunks

\* the chunks of the specification of the whole provider
FewChunks ==
    { Chunk(<<"h">>, <<>>, NoFinish),
      Chunk(<<>>, <<ToolCallDelta(TRUE, 0, <<"x">>, <<"f">>, ArgEmpty)>>, NoFinish),
      Chunk(<<>>, <<>>, <<"stop">>),
      Chunk(<<>>, <<>>, FinishToolCalls) }

HelloMessage == StringMessage("User", <<"h", "i">>)

EnvKeys == {<<>>, <<"E">>}
ConfigKeys == {<<>>, <<"K">>, <<"L">>}

\* messages of the specification of the whole provider
FewMessageLists ==
    { <<>>,
      <<HelloMessage>>,
      <<StringMessage("User", <<" ">>), ArrayMessage("Assistant", <<>>)>>,
      <<HelloMessage, ArrayMessage("Assistant",
                                   <<ToolCallPart(<<"c">>, <<"f">>, JsonCircular)>>)>>,
      <<ArrayMessage("Assistant",
                     <<ToolCallPart(<<"c">>, <<"f">>, JsonObject(<<>>))>>),
        ArrayMessage("User",
                     <<ToolResultPart(<<"c">>, <<ContentItem(TRUE, <<"r">>)>>)>>)>> }

\* the parts of the messages whose translation is examined
Parts ==
    { TextPart(<<"h">>),
      TextPart(<<" ">>),
      ToolCallPart(<<"c", "1">>, <<"f">>, JsonObject(<<>>)),
      ToolCallPart(<<"c", "2">>, <<"g">>,
                   JsonObject(<<[k |-> <<"a">>, v |-> JsonNumber(1)]>>)),
      ToolResultPart(<<"r", "1">>, <<ContentItem(TRUE, <<"a">>), ContentItem(FALSE, <<>>),
                                     ContentItem(TRUE, <<"b">>)>>),
      ResultObject(<<"r", "3">>, <<"r", "e", "s">>),
      DataPart }

PartSequences == UNION {[1..n -> Parts] : n \in 0..MaxParts}

Messages ==
    {ArrayMessage("User", parts) : parts \in PartSequences}
    \cup {ArrayMessage(role, <<TextPart(<<"h">>)>>) : role \in {"Assistant", "System"}}
    \cup {StringMessage(role, content) :
             role \in {"User", "Assistant", "System"},
             content \in {<<>>, <<" ", "\n">>, <<"h", "i">>, <<" ", "h", " ">>}}

\* a message alone, or after one of a few messages
MessageLists ==
    {<<m>> : m \in Messages}
    \cup {<<first, m>> :
             first \in {StringMessage("User", <<" ">>),
                        ArrayMessage("User", <<ToolResultPart(<<"r", "0">>, <<>>),
                                               ResultObject(<<"r", "9">>, <<>>)>>)},
             m \in Messages}

\* prepareLanguageModelChat: the three model descriptors
PreparedModels ==
    { ChatModelInfo(<<"v0-1.5-md">>, 64000, TRUE),
      ChatModelInfo(<<"v0-1.5-lg">>, 64000, TRUE),
      ChatModelInfo(<<"v0-1.0-md">>, 64000, TRUE) }

\* a descriptor of getChatModelInfo with supportsTools = false and a small output limit
ModelWithoutTools == ChatModelInfo(<<"v0-1.0-md">>, 2000, FALSE)

ModelInfos == PreparedModels \cup {ModelWithoutTools}

\* options.modelOptions.maxTokens: absent, 0, and values below and above the limits
MaxTokensOptions == {NoOption, Option(0), Option(1), Option(4000), Option(999999)}

\* options.modelOptions.temperature in tenths: absent, 0, -1, 0.5, 2 and 5
TemperatureOptions == {NoOption, Option(0), Option(-10), Option(5), Option(20), Option(50)}

ToolCatalogs ==
    { <<>>,
      <<ChatTool(<<"f">>, <<"d">>, <<"{type:object,properties:{a:{}}}">>)>>,
      <<ChatTool(<<"f">>, <<"d">>, <<"{type:object,properties:{a:{}}}">>),
        ChatTool(<<"g">>, <<>>, Undefined)>> }

\* options.toolMode: undefined (0), LanguageModelChatToolMode.Auto (1) and Required (2)
ToolModes == {0, 1, 2}

RequestOptionsSet ==
    { RequestOptions(maxTokens, temperature, tools, toolMode) :
         maxTokens \in MaxTokensOptions, temperature \in TemperatureOptions,
         tools \in ToolCatalogs, toolMode \in ToolModes }

\* messages of text alone: a string, or an array of text parts
TextMessages ==
    { StringMessage("User", <<"h", "i">>),
      StringMessage("User", <<" ", "\n">>),
      StringMessage("Assistant", <<" ", "o", "k", " ">>),
      StringMessage("System", <<"s">>),
      StringMessage("System", <<>>),
      ArrayMessage("Assistant", <<TextPart(<<"a">>), TextPart(<<"b">>)>>),
      ArrayMessage("System", <<TextPart(<<" ">>), TextPart(<<"\t">>)>>) }

TextMessageLists == UNION {[1..n -> TextMessages] : n \in 2..MaxMessages}

(***************************************************************************)
(* Specifications.                                                         *)
(***************************************************************************)
InitWith(envKeys, configKeys) ==
    /\ envKey \in envKeys
    /\ configKey \in configKeys
    /\ client = NullClient
    /\ lastApiKey = <<>>
    /\ clientsBuilt = 0
    /\ pc = [e \in Exchanges |-> "idle"]
    /\ handle = [e \in Exchanges |-> NullClient]
    /\ model = [e \in Exchanges |-> TheModel]
    /\ options = [e \in Exchanges |-> DefaultOptions]
    /\ messages = [e \in Exchanges |-> <<>>]
    /\ pushed = [e \in Exchanges |-> <<>>]
    /\ request = [e \in Exchanges |-> NoRequest]
    /\ token = [e \in Exchanges |-> FALSE]
    /\ chunkCount = [e \in Exchanges |-> 0]
    /\ toolCallsInProgress = [e \in Exchanges |-> <<>>]
    /\ progress = [e \in Exchanges |-> <<>>]
    /\ consumed = [e \in Exchanges |-> <<>>]
    /\ caught = [e \in Exchanges |-> NothingCaught]

\* the whole provider: credentials come and go, one exchange
Init == InitWith(EnvKeys, ConfigKeys)

Next ==
    \/ \E msgs \in FewMessageLists : CallClientThrows(1, TheModel, DefaultOptions, msgs)
    \/ \E msgs \in FewMessageLists : CallNoClient(1, TheModel, DefaultOptions, msgs)
    \/ \E msgs \in FewMessageLists : CallTranslateThrows(1, TheModel, DefaultOptions, msgs)
    \/ \E msgs \in FewMessageLists : CallNoMessages(1, TheModel, DefaultOptions, msgs)
    \/ \E msgs \in FewMessageLists : CallCreates(1, TheModel, DefaultOptions, msgs)
    \/ CreateResolves(1)
    \/ \E error \in Errors : CreateRejects(1, error)
    \/ \E chunk \in FewChunks : ChunkCancelled(1, chunk)
    \/ \E chunk \in FewChunks : ChunkDelta(1, chunk)
    \/ \E chunk \in FewChunks : ChunkFinish(1, chunk)
    \/ StreamEnds(1)
    \/ \E error \in Errors : StreamThrows(1, error)
    \/ Cancel(1)
    \/ \E key \in ConfigKeys : ConfigurationChanged(key)

Spec == Init /\ [][Next]_vars

\* the stream of one exchange, with the credential in the environment
InitStream == InitWith({<<"E">>}, {<<>>})

NextStream ==
    \/ CallCreates(1, TheModel, DefaultOptions, <<HelloMessage>>)
    \/ CreateResolves(1)
    \/ \E chunk \in Chunks : ChunkCancelled(1, chunk)
    \/ \E chunk \in Chunks : ChunkDelta(1, chunk)
    \/ \E chunk \in Chunks : ChunkFinish(1, chunk)
    \/ StreamEnds(1)
    \/ StreamThrows(1, ConnectionError)
    \/ Cancel(1)

SpecStream == InitStream /\ [][NextStream]_vars

\* the translation of the messages of one exchange, up to the call of create()
NextTranslate ==
    \/ \E msgs \in MessageLists \cup TextMessageLists :
          CallNoMessages(1, TheModel, DefaultOptions, msgs)
    \/ \E msgs \in MessageLists \cup TextMessageLists :
          CallCreates(1, TheModel, DefaultOptions, msgs)

SpecTranslate == InitStream /\ [][NextTranslate]_vars

\* the request of one exchange, for every model descriptor and every option
NextRequest ==
    \E mdl \in ModelInfos : \E opts \in RequestOptionsSet :
        CallCreates(1, mdl, opts, <<HelloMessage>>)

SpecRequest == InitStream /\ [][NextRequest]_vars

\* chunks of the exchanges that run while the credentials change
ClientChunks ==
    { Chunk(<<"h">>, <<>>, NoFinish),
      Chunk(<<>>, <<>>, <<"stop">>) }

\* two exchanges on one provider while the setting and the environment change
InitClients == InitWith({<<>>}, {<<"K">>})

NextClients ==
    \/ \E e \in Exchanges : CallNoClient(e, TheModel, DefaultOptions, <<HelloMessage>>)
    \/ \E e \in Exchanges : CallCreates(e, TheModel, DefaultOptions, <<HelloMessage>>)
    \/ \E e \in Exchanges : CreateResolves(e)
    \/ \E e \in Exchanges : CreateRejects(e, APIError401)
    \/ \E e \in Exchanges : \E chunk \in ClientChunks : ChunkCancelled(e, chunk)
    \/ \E e \in Exchanges : \E chunk \in ClientChunks : ChunkDelta(e, chunk)
    \/ \E e \in Exchanges : \E chunk \in ClientChunks : ChunkFinish(e, chunk)
    \/ \E e \in Exchanges : StreamEnds(e)
    \/ \E e \in Exchanges : StreamThrows(e, ConnectionError)
    \/ \E e \in Exchanges : Cancel(e)
    \/ \E key \in ConfigKeys : ConfigurationChanged(key)
    \/ \E key \in EnvKeys : EnvironmentChanged(key)

SpecClients == InitClients /\ [][NextClients]_vars

\* chunks of two exchanges that stream side by side: two calls that differ in id
\* and name, and the tool_calls finish
InterleavedChunks ==
    { Chunk(<<"h">>, <<ToolCallDelta(TRUE, 0, <<"x">>, <<"f">>, ArgEmpty)>>, NoFinish),
      Chunk(<<"i">>, <<ToolCallDelta(TRUE, 0, <<"y">>, <<"g">>, ArgEmpty)>>, NoFinish),
      Chunk(<<>>, <<>>, FinishToolCalls) }

\* two exchanges on one provider, interleaved at their awaits
NextInterleaved ==
    \/ \E e \in Exchanges : CallCreates(e, TheModel, DefaultOptions, <<HelloMessage>>)
    \/ \E e \in Exchanges : CreateResolves(e)
    \/ \E e \in Exchanges : \E chunk \in InterleavedChunks : ChunkCancelled(e, chunk)
    \/ \E e \in Exchanges : \E chunk \in InterleavedChunks : ChunkDelta(e, chunk)
    \/ \E e \in Exchanges : \E chunk \in InterleavedChunks : ChunkFinish(e, chunk)
    \/ \E e \in Exchanges : StreamEnds(e)
    \/ \E e \in Exchanges : StreamThrows(e, ConnectionError)
    \/ \E e \in Exchanges : Cancel(e)

SpecInterleaved == InitStream /\ [][NextInterleaved]_vars

\* one exchange whose create() or whose stream throws
NextFailures ==
    \/ CallCreates(1, TheModel, DefaultOptions, <<HelloMessage>>)
    \/ CreateResolves(1)
    \/ \E error \in Failures : CreateRejects(1, error)
    \/ ChunkDelta(1, Chunk(<<"h">>, <<>>, NoFinish))
    \/ \E error \in Failures : StreamThrows(1, error)

SpecFailures == InitStream /\ [][NextFailures]_vars

(***************************************************************************)
(* What the properties below speak about.                                  *)
(***************************************************************************)
Last(s) == s[Len(s)]
Front(s) == SubSeq(s, 1, Len(s) - 1)

\* the last chunk the exchange received carried finish reason tool_calls and was
\* processed (cancellation is never requested after the exchange has returned)
FinishedToolCalls(e) ==
    /\ pc[e] = "returned"
    /\ ~token[e]
    /\ consumed[e] # <<>>
    /\ Last(consumed[e]).finish_reason = <<"tool_calls">>

\* the text-fragment events of a sequence of chunks: one per non-empty text delta
RECURSIVE TextFragments(_)
TextFragments(chunks) ==
    IF chunks = <<>> THEN <<>>
    ELSE (IF Head(chunks).content # <<>>
          THEN <<[index |-> 0, kind |-> "text", value |-> Head(chunks).content,
                  callId |-> <<>>, name |-> <<>>, input |-> JsonNumber(0)]>>
          ELSE <<>>) \o TextFragments(Tail(chunks))

\* the tool-call fragments the chunks carry for tool index i, in arrival order
FragmentsFor(chunks, i) ==
    LET all == Flatten([k \in 1..Len(chunks) |-> chunks[k].tool_calls])
        ForIndex(d) == (IF d.hasIndex THEN d.index ELSE 0) = i
    IN  SelectSeq(all, ForIndex)

IdsOf(frags) == SelectSeq([k \in 1..Len(frags) |-> frags[k].id], Truthy)
NamesOf(frags) == SelectSeq([k \in 1..Len(frags) |-> frags[k].name], Truthy)
ArgumentsOf(frags) == Flatten([k \in 1..Len(frags) |-> frags[k].arguments])

IsToolCallEvent(ev) == ev.kind = "toolCall"
IsFallbackEvent(ev) == ev.kind = "text" /\ ev.value # <<>> /\ Head(ev.value) = "[Tool Call: "
IsErrorEvent(ev) ==
    ev.kind = "text" /\ ev.value # <<>> /\ Head(ev.value) = "Error calling v0.dev API: "

\* a completed tool call or the text that stands in for one
IsCompletion(ev) == IsToolCallEvent(ev) \/ IsFallbackEvent(ev)

Completions(events) == SelectSeq(events, IsCompletion)

CompletionsAt(events, i) ==
    LET AtIndex(ev) == IsCompletion(ev) /\ ev.index = i
    IN  SelectSeq(events, AtIndex)

\* the pending call of index i holds an id, a name and argument text
PendingComplete(e, i) ==
    /\ i \in DOMAIN toolCallsInProgress[e]
    /\ toolCallsInProgress[e][i].id # <<>>
    /\ toolCallsInProgress[e][i].name # <<>>
    /\ toolCallsInProgress[e][i].arguments # <<>>

ObjectA1 == JsonObject(<<[k |-> <<"a">>, v |-> JsonNumber(1)]>>)

(***************************************************************************)
(* C1: when the chunks before a processed tool_calls finish chunk gave a   *)
(* tool index an id, a name and argument text that parses, and the finish  *)
(* chunk itself carries no fragment for it, the exchange has reported      *)
(* exactly one tool call for that index: it carries the last id, the last  *)
(* name and the parse of all the argument fragments concatenated in        *)
(* arrival order, and no fallback text stands at that index.               *)
(***************************************************************************)
C1_OneCompletedToolCall ==
    \A e \in Exchanges : FinishedToolCalls(e) =>
        \A i \in ToolIndexes :
            LET frags == FragmentsFor(Front(consumed[e]), i)
                ids == IdsOf(frags)
                names == NamesOf(frags)
                parsed == JSONparse(ArgumentsOf(frags))
            IN  ( /\ ids # <<>> /\ names # <<>> /\ ArgumentsOf(frags) # <<>>
                  /\ parsed.ok
                  /\ FragmentsFor(<<Last(consumed[e])>>, i) = <<>> )
                => CompletionsAt(progress[e], i)
                     = <<[index |-> i, kind |-> "toolCall", value |-> <<>>,
                          callId |-> Last(ids), name |-> Last(names),
                          input |-> parsed.val]>>

\* {"a": and 1} arrive in two chunks for index 0 with id x and name f
C1_Witness ==
    /\ FinishedToolCalls(1)
    /\ Len(consumed[1]) = 3
    /\ FragmentsFor(<<consumed[1][1]>>, 0) # <<>>
    /\ FragmentsFor(<<consumed[1][2]>>, 0) # <<>>
    /\ progress[1] = <<TextEvent(0, <<"h">>), ToolCallEvent(0, <<"x">>, <<"f">>, ObjectA1)>>

(***************************************************************************)
(* C2: completed tool calls and their fallback texts are reported only by  *)
(* the step that processes a chunk with finish reason tool_calls; they     *)
(* come after the text fragments of all chunks received, and their         *)
(* indexes ascend strictly.                                                *)
(***************************************************************************)
C2_OnlyAtFinishAscending ==
    [][\A e \in Exchanges :
        LET before == Completions(progress[e])
            after == Completions(progress'[e])
        IN  /\ after # before =>
                 /\ pc[e] = "streaming" /\ ~token[e]
                 /\ Len(consumed'[e]) = Len(consumed[e]) + 1
                 /\ Last(consumed'[e]).finish_reason = <<"tool_calls">>
                 /\ before = <<>>
                 /\ progress'[e] = TextFragments(consumed'[e]) \o after
            /\ \A j, k \in 1..Len(after) : j < k => after[j].index < after[k].index
      ]_vars

\* index 1 appeared first in the stream, index 0 is reported first
C2_Witness ==
    /\ FinishedToolCalls(1)
    /\ consumed[1][1].tool_calls # <<>>
    /\ consumed[1][1].tool_calls[1].index > 0
    /\ Len(Completions(progress[1])) = 2
    /\ Completions(progress[1])[1].index = 0

(***************************************************************************)
(* C3: for every tool index the exchange reports at most one completion:   *)
(* exactly one when the tool_calls finish was processed while the pending  *)
(* call of that index held id, name and argument text, none otherwise; and *)
(* a processed tool_calls finish reports no error.                         *)
(***************************************************************************)
C3_AtMostOncePerPending ==
    \A e \in Exchanges :
        /\ DOMAIN toolCallsInProgress[e] \subseteq ToolIndexes
        /\ \A i \in ToolIndexes :
              Len(CompletionsAt(progress[e], i))
                = IF FinishedToolCalls(e) /\ PendingComplete(e, i) THEN 1 ELSE 0
        /\ FinishedToolCalls(e) =>
              \A k \in 1..Len(progress[e]) : ~IsErrorEvent(progress[e][k])

\* the call of index 0 has an id but no name; the call of index 1 is reported
C3_Witness ==
    /\ FinishedToolCalls(1)
    /\ DOMAIN toolCallsInProgress[1] = {0, 1}
    /\ toolCallsInProgress[1][0].id # <<>>
    /\ toolCallsInProgress[1][0].name = <<>>
    /\ Len(CompletionsAt(progress[1], 0)) = 0
    /\ Len(CompletionsAt(progress[1], 1)) = 1

(***************************************************************************)
(* C4: a chunk that arrives while cancellation is requested ends the       *)
(* exchange without a report: what has been reported is then exactly the   *)
(* text fragments of the chunks received before, and a returned exchange   *)
(* reports nothing more.                                                   *)
(***************************************************************************)
C4_CancellationStops ==
    [][\A e \in Exchanges :
        /\ ( /\ pc[e] = "streaming" /\ token[e]
             /\ Len(consumed'[e]) = Len(consumed[e]) + 1 )
           => /\ pc'[e] = "returned"
              /\ progress'[e] = progress[e]
              /\ progress[e] = TextFragments(consumed[e])
        /\ pc[e] = "returned" => (pc'[e] = "returned" /\ progress'[e] = progress[e])
      ]_vars

\* the cancelled chunk was the tool_calls finish of a complete pending call
C4_Witness ==
    /\ pc[1] = "returned"
    /\ token[1]
    /\ Len(consumed[1]) = 3
    /\ Last(consumed[1]).finish_reason = <<"tool_calls">>
    /\ PendingComplete(1, 0)
    /\ progress[1] = <<TextEvent(0, <<"h">>)>>

(***************************************************************************)
(* C5: the chat-response operation never raises across its boundary: no    *)
(* exchange ends with a rejected promise.                                  *)
(***************************************************************************)
C5_NeverRaises == \A e \in Exchanges : pc[e] # "rejected"

(***************************************************************************)
(* C6: a call that resolves no credential, or that obtains a client and    *)
(* then fails to convert its messages, returns at once with exactly one    *)
(* report, a text at index 0, and hands no request to create(); a returned *)
(* exchange reports nothing more.                                          *)
(***************************************************************************)
C6_OnlyTheReport ==
    [][\A e \in Exchanges :
        /\ ( /\ pc[e] = "idle" /\ pc'[e] # "idle"
             /\ \/ ~Truthy(envKey) /\ ~Truthy(configKey)
                \/ handle'[e] # NullClient /\ TranslateThrows(messages'[e]) )
           => /\ pc'[e] = "returned"
              /\ Len(progress'[e]) = 1
              /\ progress'[e][1].kind = "text"
              /\ progress'[e][1].index = 0
              /\ progress'[e][1].value # <<>>
              /\ ~request'[e].stream
        /\ pc[e] = "returned" =>
              (pc'[e] = "returned" /\ progress'[e] = progress[e] /\ request'[e] = request[e])
      ]_vars

\* neither the environment variable nor the setting holds a key
C6_Witness ==
    /\ pc[1] = "returned"
    /\ ~Truthy(envKey) /\ ~Truthy(configKey)
    /\ handle[1] = NullClient
    /\ messages[1] # <<>>
    /\ progress[1] = <<TextEvent(0, ClientNotInitializedText)>>
    /\ request[1] = NoRequest

(***************************************************************************)
(* C7: a call that obtains a client and whose messages are all blank (a    *)
(* string of whitespace only, or an array without tool call, without tool  *)
(* result and without text beyond whitespace) returns with the single      *)
(* report "Error: No valid messages to process." and hands no request to   *)
(* create(); no request ever carries an empty message list.                *)
(***************************************************************************)
IsBlankChar(c) == c \in {" ", "\n", "\t"}

BlankMessage(msg) ==
    IF msg.isArray
    THEN \A j \in 1..Len(msg.parts) :
            /\ msg.parts[j].callId = <<>>
            /\ msg.parts[j].result = <<>>
            /\ \A c \in 1..Len(msg.parts[j].value) : IsBlankChar(msg.parts[j].value[c])
    ELSE \A c \in 1..Len(msg.content) : IsBlankChar(msg.content[c])

C7_NothingToSend ==
    [][\A e \in Exchanges :
        /\ ( /\ pc[e] = "idle" /\ pc'[e] # "idle"
             /\ handle'[e] # NullClient
             /\ \A k \in 1..Len(messages'[e]) : BlankMessage(messages'[e][k]) )
           => /\ pc'[e] = "returned"
              /\ progress'[e] = <<TextEvent(0, <<"Error: No valid messages to process.">>)>>
              /\ ~request'[e].stream
        /\ request'[e].stream => request'[e].messages # <<>>
      ]_vars

\* a whitespace message and an array message without parts
C7_Witness ==
    /\ pc[1] = "returned"
    /\ handle[1] # NullClient
    /\ Len(messages[1]) = 2
    /\ \A k \in 1..Len(messages[1]) : BlankMessage(messages[1][k])
    /\ progress[1] = <<TextEvent(0, NoValidMessagesText)>>

(***************************************************************************)
(* C8 as stated: a pending call with id, name and argument text that does  *)
(* not parse is reported, at its index, as one text whose value is         *)
(* name(arguments).                                                        *)
(***************************************************************************)
Unparsable(e, i) ==
    PendingComplete(e, i) /\ ~JSONparse(toolCallsInProgress[e][i].arguments).ok

C8_BareRendering ==
    \A e \in Exchanges : FinishedToolCalls(e) =>
        \A i \in ToolIndexes : Unparsable(e, i) =>
            LET call == toolCallsInProgress[e][i]
            IN  CompletionsAt(progress[e], i)
                  = <<[index |-> i, kind |-> "text",
                       value |-> call.name \o <<"(">> \o call.arguments \o <<")">>,
                       callId |-> <<>>, name |-> <<>>, input |-> JsonNumber(0)]>>

(***************************************************************************)
(* C8 amended: such a call is reported, at its index, as one text whose    *)
(* value is [Tool Call: name(arguments)]; every other pending call that is *)
(* complete is reported as well, and no error is reported.                 *)
(***************************************************************************)
C8_BracketedRendering ==
    \A e \in Exchanges : FinishedToolCalls(e) =>
        \A i \in ToolIndexes : Unparsable(e, i) =>
            LET call == toolCallsInProgress[e][i]
            IN  /\ CompletionsAt(progress[e], i)
                     = <<[index |-> i, kind |-> "text",
                          value |-> <<"[Tool Call: ">> \o call.name \o <<"(">>
                                    \o call.arguments \o <<")", "]">>,
                          callId |-> <<>>, name |-> <<>>, input |-> JsonNumber(0)]>>
                /\ \A j \in ToolIndexes :
                      PendingComplete(e, j) => Len(CompletionsAt(progress[e], j)) = 1
                /\ \A k \in 1..Len(progress[e]) : ~IsErrorEvent(progress[e][k])

\* {a:1 and } at index 0 under name f; the call of the highest index parses
C8_Witness ==
    /\ FinishedToolCalls(1)
    /\ PendingComplete(1, 1)
    /\ Len(consumed[1]) = 3
    /\ progress[1]
         = <<TextEvent(0, <<"[Tool Call: ", "f", "(", "{", "a", ":", "1", "}", ")", "]">>),
             ToolCallEvent(1, <<"x">>, <<"f">>, JsonObject(<<>>))>>

(***************************************************************************)
(* C9: a message with at least one tool call part pushes exactly one       *)
(* message: its role is assistant and it has one tool_calls entry per tool *)
(* call part, in order, with the part's callId and name; the messages of   *)
(* the request are what the input messages pushed, in order.               *)
(***************************************************************************)
ToolCallPartsOf(msg) ==
    LET IsCall(part) == part.ctor = <<"LanguageModel", "ToolCall", "Part">>
    IN  SelectSeq(msg.parts, IsCall)

\* tool result parts of the host, and plain objects that carry a callId
ToolResultPartsOf(msg) ==
    LET IsResult(part) ==
            \/ part.ctor = <<"LanguageModel", "ToolResult", "Part">>
            \/ part.ctor = <<"Object">> /\ part.callId # <<>>
    IN  SelectSeq(msg.parts, IsResult)

Translated(e) == pc[e] # "idle" /\ Len(pushed[e]) = Len(messages[e])

C9_ToolCallsWin ==
    \A e \in Exchanges : Translated(e) =>
        /\ request[e].messages = Flatten(pushed[e])
        /\ \A k \in 1..Len(messages[e]) :
              LET calls == ToolCallPartsOf(messages[e][k])
                  out == pushed[e][k]
              IN  (messages[e][k].isArray /\ calls # <<>>) =>
                     /\ Len(out) = 1
                     /\ out[1].role = "assistant"
                     /\ Len(out[1].tool_calls) = Len(calls)
                     /\ \A j \in 1..Len(calls) :
                           /\ out[1].tool_calls[j].id = calls[j].callId
                           /\ out[1].tool_calls[j].function.name = calls[j].name

\* two tool calls around a tool result
C9_Witness ==
    /\ Translated(1)
    /\ Len(messages[1]) = 1
    /\ Len(ToolCallPartsOf(messages[1][1])) = 2
    /\ Len(ToolResultPartsOf(messages[1][1])) = 1
    /\ messages[1][1].parts[2].ctor = ToolResultPartClass
    /\ Len(request[1].messages) = 1
    /\ request[1].messages[1].role = "assistant"
    /\ request[1].messages[1].tool_calls[1].id # request[1].messages[1].tool_calls[2].id

(***************************************************************************)
(* C10: a message without tool call part and with N >= 1 tool result parts *)
(* pushes exactly N messages, one per tool result part in order: each has  *)
(* role tool and the part's callId as tool_call_id.                        *)
(***************************************************************************)
C10_OneToolMessagePerResult ==
    \A e \in Exchanges : Translated(e) =>
        \A k \in 1..Len(messages[e]) :
            LET results == ToolResultPartsOf(messages[e][k])
                out == pushed[e][k]
            IN  ( /\ messages[e][k].isArray
                  /\ ToolCallPartsOf(messages[e][k]) = <<>>
                  /\ results # <<>> ) =>
                   /\ Len(out) = Len(results)
                   /\ \A j \in 1..Len(results) :
                         /\ out[j].role = "tool"
                         /\ out[j].tool_call_id = results[j].callId

\* a text part, a tool result part and a plain result object
C10_Witness ==
    /\ Translated(1)
    /\ Len(messages[1]) = 1
    /\ Len(messages[1][1].parts) = 3
    /\ messages[1][1].parts[1].ctor = TextPartClass
    /\ messages[1][1].parts[1].value = <<"h">>
    /\ Len(ToolResultPartsOf(messages[1][1])) = 2
    /\ messages[1][1].parts[2].ctor # messages[1][1].parts[3].ctor
    /\ Len(request[1].messages) = 2
    /\ request[1].messages[1].tool_call_id # request[1].messages[2].tool_call_id

(***************************************************************************)
(* C11: when every message of a call is text alone, the messages pushed    *)
(* are, in input order, one per message whose text is more than            *)
(* whitespace and none for the others, so their number is the number of    *)
(* input messages less the blank ones; the role is user for User,          *)
(* assistant for Assistant and user for any other role.                    *)
(***************************************************************************)
IsPlainText(msg) ==
    msg.isArray => \A j \in 1..Len(msg.parts) :
                      msg.parts[j].ctor = <<"LanguageModel", "Text", "Part">>

TextOf(msg) ==
    IF msg.isArray THEN Flatten([j \in 1..Len(msg.parts) |-> msg.parts[j].value])
    ELSE msg.content

NotBlank(msg) == \E c \in 1..Len(TextOf(msg)) : ~IsBlankChar(TextOf(msg)[c])

OutboundRole(role) ==
    IF role = "User" THEN "user" ELSE IF role = "Assistant" THEN "assistant" ELSE "user"

C11_OnePerNonBlankText ==
    \A e \in Exchanges :
        (Translated(e) /\ \A k \in 1..Len(messages[e]) : IsPlainText(messages[e][k])) =>
            LET kept == SelectSeq(messages[e], NotBlank)
                out == Flatten(pushed[e])
                blanks == {k \in 1..Len(messages[e]) : ~NotBlank(messages[e][k])}
            IN  /\ Len(out) = Len(messages[e]) - Cardinality(blanks)
                /\ Len(out) = Len(kept)
                /\ \A k \in 1..Len(messages[e]) :
                      Len(pushed[e][k]) = IF k \in blanks THEN 0 ELSE 1
                /\ \A j \in 1..Len(kept) :
                      /\ out[j].role = OutboundRole(kept[j].role)
                      /\ Trim(out[j].content) = Trim(TextOf(kept[j]))
                      /\ out[j].tool_calls = <<>>
                      /\ out[j].tool_call_id = <<>>
                /\ request[e].stream => request[e].messages = out

\* a System message, a whitespace message and an Assistant message
C11_Witness ==
    /\ Translated(1)
    /\ Len(messages[1]) = 3
    /\ \A k \in 1..3 : ~messages[1][k].isArray
    /\ messages[1][1].role = "System"
    /\ ~NotBlank(messages[1][2])
    /\ messages[1][3].role = "Assistant"
    /\ Len(request[1].messages) = 2
    /\ request[1].messages[1].role = "user"
    /\ request[1].messages[2].role = "assistant"

(***************************************************************************)
(* C12: the request carries max_tokens = min(requested, limit of the       *)
(* model) and temperature = requested clamped to [0, 2], where a value     *)
(* that was not requested counts as 4000 and 0.7, and a requested 0 counts *)
(* as 0.                                                                   *)
(***************************************************************************)
Requested(opt, default) == IF opt.set THEN opt.v ELSE default

Clamp(x, lo, hi) == IF x < lo THEN lo ELSE IF x > hi THEN hi ELSE x

C12_DefaultOnlyWhenAbsent ==
    \A e \in Exchanges : request[e].stream =>
        /\ request[e].max_tokens
             = (IF Requested(options[e].maxTokens, 4000) <= model[e].maxOutputTokens
                THEN Requested(options[e].maxTokens, 4000)
                ELSE model[e].maxOutputTokens)
        /\ request[e].temperature = Clamp(Requested(options[e].temperature, 7), 0, 20)

(***************************************************************************)
(* C19: the request carries tools and tool_choice exactly when the model   *)
(* supports tool calling and the options supply at least one tool; then    *)
(* tools has one function entry per supplied tool, in order and under its  *)
(* name, and tool_choice is required when the tool mode is Required (2)    *)
(* and auto otherwise; in every other case neither field is present.       *)
(***************************************************************************)
C19_ToolsOnlyWhenSupplied ==
    \A e \in Exchanges : request[e].stream =>
        LET supplied == model[e].toolCalling /\ options[e].tools # <<>>
        IN  /\ request[e].hasTools <=> supplied
            /\ supplied =>
                  /\ Len(request[e].tools) = Len(options[e].tools)
                  /\ \A j \in 1..Len(options[e].tools) :
                        /\ request[e].tools[j].type = "function"
                        /\ request[e].tools[j].function.name = options[e].tools[j].name
                  /\ request[e].tool_choice
                       = (IF options[e].toolMode = 2 THEN "required" ELSE "auto")
            /\ ~supplied =>
                  /\ request[e].tools = <<>>
                  /\ request[e].tool_choice = "absent"

\* two tools under tool mode Required
C19_Witness ==
    /\ request[1].stream
    /\ model[1].toolCalling
    /\ Len(options[1].tools) = 2
    /\ options[1].toolMode = 2
    /\ request[1].hasTools
    /\ Len(request[1].tools) = 2
    /\ request[1].tools[1].function.name # request[1].tools[2].function.name
    /\ request[1].tool_choice = "required"

(***************************************************************************)
(* C13: an exchange that waits for create() or for a chunk holds a client, *)
(* and no step changes the client it holds or the request it issued; a     *)
(* step that changes the setting, the environment or the cached client, or *)
(* that starts another exchange, changes neither what the exchange has     *)
(* reported nor where it stands; and a client is built only by the step    *)
(* that starts an exchange, which then holds the new client.               *)
(***************************************************************************)
InFlight(e) == pc[e] \in {"creating", "streaming"}

C13_InFlightKeepsItsClient ==
    [][\A e \in Exchanges :
        /\ InFlight(e) =>
              /\ handle[e] # NullClient
              /\ handle'[e] = handle[e]
              /\ request'[e] = request[e]
              /\ ( \/ <<envKey, configKey, client, lastApiKey, clientsBuilt>>'
                        # <<envKey, configKey, client, lastApiKey, clientsBuilt>>
                   \/ \E o \in Exchanges \ {e} : pc'[o] # pc[o] )
                 => /\ pc'[e] = pc[e]
                    /\ progress'[e] = progress[e]
                    /\ consumed'[e] = consumed[e]
                    /\ toolCallsInProgress'[e] = toolCallsInProgress[e]
                    /\ token'[e] = token[e]
        /\ ( /\ pc[e] = "idle" /\ pc'[e] # "idle"
             /\ clientsBuilt' # clientsBuilt )
           => /\ handle'[e] = client'
              /\ handle'[e].serial = clientsBuilt'
              /\ \A o \in Exchanges \ {e} : handle'[o] # handle'[e]
        /\ clientsBuilt' # clientsBuilt => \E o \in Exchanges : pc[o] = "idle" /\ pc'[o] # "idle"
      ]_vars

\* exchange 1 streams with the client of key K after the setting changed to L and
\* exchange 2 built a client of its own
C13_Witness ==
    /\ pc[1] = "streaming"
    /\ progress[1] = <<TextEvent(0, <<"h">>)>>
    /\ handle[1] = NewOpenAI(<<"K">>, 1)
    /\ configKey = <<"L">>
    /\ client = NewOpenAI(<<"L">>, 2)
    /\ handle[2] = client
    /\ InFlight(2)

(***************************************************************************)
(* C14: a cached client is always paired with the key it was built with;   *)
(* the step that starts an exchange hands it a client exactly when a key   *)
(* resolves (environment first, then setting), and that client was built   *)
(* with the resolved key; the cached client is handed out again only when  *)
(* it was built with the resolved key, otherwise a new one is built; and a *)
(* change of the setting leaves no cached client behind.                   *)
(***************************************************************************)
ResolvedKey == IF envKey # <<>> THEN envKey ELSE configKey

C14_ClientOfResolvedKey ==
    [][ /\ client # NullClient => client.apiKey = lastApiKey
        /\ client' # NullClient => client'.apiKey = lastApiKey'
        /\ configKey' # configKey => client' = NullClient
        /\ \A e \in Exchanges :
              (pc[e] = "idle" /\ pc'[e] \notin {"idle", "rejected"}) =>
                 /\ handle'[e] = NullClient <=> ResolvedKey = <<>>
                 /\ handle'[e] # NullClient =>
                       /\ handle'[e].apiKey = ResolvedKey
                       /\ client' = handle'[e]
                 /\ (handle'[e] # NullClient /\ handle'[e] = client) =>
                       client.apiKey = ResolvedKey
                 /\ (client # NullClient /\ client.apiKey = ResolvedKey) =>
                       (handle'[e] = client /\ clientsBuilt' = clientsBuilt)
                 /\ (ResolvedKey # <<>> /\ (client = NullClient \/ client.apiKey # ResolvedKey)) =>
                       (handle'[e].serial = clientsBuilt + 1 /\ clientsBuilt' = clientsBuilt + 1)
      ]_vars

\* the environment variable was set after exchange 1 had started with the key of
\* the setting: exchange 2 holds a second client, built with the key of the environment
C14_Witness ==
    /\ handle[1] = NewOpenAI(<<"K">>, 1)
    /\ configKey = <<"K">>
    /\ envKey = <<"E">>
    /\ handle[2] = NewOpenAI(<<"E">>, 2)
    /\ client = handle[2]
    /\ lastApiKey = <<"E">>

(***************************************************************************)
(* C15: with two exchanges interleaved, the pending calls of an exchange   *)
(* are empty until its stream starts and hold, index by index, the         *)
(* fragments of its own chunks and nothing else; its text reports are the  *)
(* text of its own chunks and every completion it reports carries the id   *)
(* and the name of its own pending call; and a step of one exchange        *)
(* changes neither the pending calls nor the reports of the other,         *)
(* however the other has ended.                                            *)
(***************************************************************************)
LastOr(s, default) == IF s = <<>> THEN default ELSE s[Len(s)]

IsTextDelta(ev) == ev.kind = "text" /\ ~IsFallbackEvent(ev) /\ ~IsErrorEvent(ev)

\* the pending calls and the reports of e are those of the chunks
OwnStream(e, chunks) ==
    /\ \A i \in ToolIndexes \cup DOMAIN toolCallsInProgress[e] :
          LET frags == FragmentsFor(chunks, i)
          IN  IF frags = <<>> THEN i \notin DOMAIN toolCallsInProgress[e]
              ELSE /\ i \in DOMAIN toolCallsInProgress[e]
                   /\ toolCallsInProgress[e][i]
                        = [id |-> LastOr(IdsOf(frags), <<>>),
                           name |-> LastOr(NamesOf(frags), <<>>),
                           arguments |-> ArgumentsOf(frags)]
    /\ SelectSeq(progress[e], IsTextDelta) = TextFragments(chunks)
    /\ \A k \in 1..Len(progress[e]) :
          IsToolCallEvent(progress[e][k]) =>
             /\ progress[e][k].index \in DOMAIN toolCallsInProgress[e]
             /\ progress[e][k].callId = toolCallsInProgress[e][progress[e][k].index].id
             /\ progress[e][k].name = toolCallsInProgress[e][progress[e][k].index].name

\* the last chunk met the cancellation check and was dropped
OwnStreamCancelled(e) ==
    /\ token[e] /\ pc[e] = "returned" /\ consumed[e] # <<>>
    /\ OwnStream(e, Front(consumed[e]))

Acts(e) == <<pc[e], token[e], consumed[e]>>' # <<pc[e], token[e], consumed[e]>>

C15_ExchangesIsolated ==
    [][\A e \in Exchanges :
        /\ (OwnStream(e, consumed[e]) \/ OwnStreamCancelled(e))'
        /\ pc'[e] \in {"idle", "creating"} =>
              (toolCallsInProgress'[e] = <<>> /\ progress'[e] = <<>>)
        /\ (pc[e] = "creating" /\ pc'[e] = "streaming") => toolCallsInProgress'[e] = <<>>
        /\ \A o \in Exchanges \ {e} :
              Acts(o) => /\ ~Acts(e)
                         /\ toolCallsInProgress'[e] = toolCallsInProgress[e]
                         /\ progress'[e] = progress[e]
                         /\ chunkCount'[e] = chunkCount[e]
      ]_vars

\* exchange 1 was cancelled with the pending call x of f; exchange 2 reports its
\* own call y of g and nothing of exchange 1
C15_Witness ==
    /\ pc[1] = "returned" /\ token[1]
    /\ PendingComplete(1, 0)
    /\ toolCallsInProgress[1][0].id = <<"x">>
    /\ progress[1] = <<TextEvent(0, <<"h">>)>>
    /\ FinishedToolCalls(2)
    /\ progress[2] = <<TextEvent(0, <<"i">>), ToolCallEvent(0, <<"y">>, <<"g">>, JsonObject(<<>>))>>

(***************************************************************************)
(* C16: when a tool_calls finish chunk has been processed, every fragment  *)
(* of the chunks received, the finish chunk included, is part of the       *)
(* pending calls that were drained: a tool index whose fragments give an   *)
(* id, a name and argument text that parses is reported as one tool call   *)
(* with the last id, the last name and the parse of all its argument text. *)
(***************************************************************************)
C16_FinishChunkFragmentsCount ==
    \A e \in Exchanges : FinishedToolCalls(e) =>
        \A i \in ToolIndexes :
            LET frags == FragmentsFor(consumed[e], i)
                ids == IdsOf(frags)
                names == NamesOf(frags)
                parsed == JSONparse(ArgumentsOf(frags))
            IN  (ids # <<>> /\ names # <<>> /\ ArgumentsOf(frags) # <<>> /\ parsed.ok)
                => CompletionsAt(progress[e], i)
                     = <<[index |-> i, kind |-> "toolCall", value |-> <<>>,
                          callId |-> Last(ids), name |-> Last(names),
                          input |-> parsed.val]>>

(***************************************************************************)
(* C17: every step leaves the text fragments an exchange has reported      *)
(* unchanged, except the step that processes a chunk: it appends one text  *)
(* at index 0 when the chunk carries text and nothing otherwise, the       *)
(* finish chunk included; the step that processes a chunk with a finish    *)
(* reason ends the exchange, and an exchange that has ended receives no    *)
(* chunk and reports nothing.                                              *)
(***************************************************************************)
TextDeltas(events) == SelectSeq(events, IsTextDelta)

ProcessesChunk(e) ==
    /\ pc[e] = "streaming" /\ ~token[e]
    /\ Len(consumed'[e]) = Len(consumed[e]) + 1

C17_TextUpToTheFinishChunk ==
    [][\A e \in Exchanges :
        /\ Len(consumed'[e]) \in {Len(consumed[e]), Len(consumed[e]) + 1}
        /\ SubSeq(consumed'[e], 1, Len(consumed[e])) = consumed[e]
        /\ ProcessesChunk(e) =>
              LET chunk == Last(consumed'[e])
              IN  /\ TextDeltas(progress'[e])
                       = TextDeltas(progress[e])
                         \o (IF chunk.content # <<>>
                             THEN <<[index |-> 0, kind |-> "text", value |-> chunk.content,
                                     callId |-> <<>>, name |-> <<>>,
                                     input |-> JsonNumber(0)]>>
                             ELSE <<>>)
                  /\ SubSeq(progress'[e], 1, Len(progress[e]) + Len(TextFragments(<<chunk>>)))
                       = progress[e] \o TextFragments(<<chunk>>)
                  /\ chunk.finish_reason # <<>> => pc'[e] = "returned"
        /\ ~ProcessesChunk(e) => TextDeltas(progress'[e]) = TextDeltas(progress[e])
        /\ pc[e] = "returned" =>
              /\ pc'[e] = "returned"
              /\ consumed'[e] = consumed[e]
              /\ progress'[e] = progress[e]
        /\ \A k \in 1..Len(progress'[e]) :
              IsTextDelta(progress'[e][k]) => progress'[e][k].index = 0
        /\ pc'[e] = "returned" /\ ~token'[e] =>
              TextDeltas(progress'[e]) = TextFragments(consumed'[e])
      ]_vars

\* text in two chunks and in the tool_calls finish chunk, after a call at index 1
C17_Witness ==
    /\ FinishedToolCalls(1)
    /\ Len(consumed[1]) = 3
    /\ Last(consumed[1]).content = <<"i">>
    /\ Len(CompletionsAt(progress[1], 1)) = 1
    /\ TextDeltas(progress[1]) = <<TextEvent(0, <<"h">>), TextEvent(0, <<"i">>)>>

(***************************************************************************)
(* C18: the step that requests cancellation changes nothing but the        *)
(* signal: the exchange stays where it is and what it has reported and     *)
(* accumulated stays as it is; a chunk that met an inactive signal is      *)
(* processed whole, so that its text is reported, its fragments are        *)
(* accumulated and, at the tool_calls finish, every complete pending call  *)
(* is reported; an active signal ends the exchange only in the step that   *)
(* receives the next chunk, which is dropped without a report.             *)
(***************************************************************************)
C18_CancelledAtChunkBoundary ==
    [][\A e \in Exchanges :
        /\ (token'[e] /\ ~token[e]) =>
              /\ pc'[e] = pc[e]
              /\ progress'[e] = progress[e]
              /\ consumed'[e] = consumed[e]
              /\ toolCallsInProgress'[e] = toolCallsInProgress[e]
        /\ ProcessesChunk(e) =>
              LET chunk == Last(consumed'[e])
                  complete == {i \in ToolIndexes : PendingComplete(e, i)}
              IN  /\ Len(TextDeltas(progress'[e]))
                       = Len(TextDeltas(progress[e])) + (IF chunk.content # <<>> THEN 1 ELSE 0)
                  /\ chunk.finish_reason = <<>> =>
                        \A i \in ToolIndexes :
                           FragmentsFor(<<chunk>>, i) # <<>> =>
                              /\ i \in DOMAIN toolCallsInProgress'[e]
                              /\ toolCallsInProgress'[e][i].arguments
                                   = (IF i \in DOMAIN toolCallsInProgress[e]
                                      THEN toolCallsInProgress[e][i].arguments ELSE <<>>)
                                     \o ArgumentsOf(FragmentsFor(<<chunk>>, i))
                  /\ chunk.finish_reason = <<"tool_calls">> =>
                        /\ Len(Completions(progress'[e])) = Cardinality(complete)
                        /\ \A i \in complete : Len(CompletionsAt(progress'[e], i)) = 1
        /\ (pc[e] = "streaming" /\ token[e] /\ pc'[e] = "returned"
             /\ Len(consumed'[e]) = Len(consumed[e]) + 1)
           => progress'[e] = progress[e]
        /\ (pc[e] = "streaming" /\ token[e] /\ Len(consumed'[e]) = Len(consumed[e]) + 1)
           => pc'[e] = "returned"
      ]_vars

\* the signal became active after the first chunk had been processed: its text is
\* reported and its fragment is kept, and the second chunk is dropped
C18_Witness ==
    /\ pc[1] = "returned" /\ token[1]
    /\ Len(consumed[1]) = 2
    /\ consumed[1][1].content = <<"h">>
    /\ consumed[1][1].tool_calls # <<>>
    /\ consumed[1][2].content # <<>>
    /\ progress[1] = <<TextEvent(0, <<"h">>)>>
    /\ 0 \in DOMAIN toolCallsInProgress[1]
    /\ toolCallsInProgress[1][0].arguments = consumed[1][1].tool_calls[1].arguments

(***************************************************************************)
(* C20: an exchange whose catch block caught an Error has returned with    *)
(* exactly one error text, its last report, at index 0. The text carries   *)
(* the guidance of the first class, in the order unauthorized, forbidden,  *)
(* rate limit, server error, network, of which a word occurs in the        *)
(* message: 401 or Unauthorized, 403 or Forbidden, 429 or rate limit, 500  *)
(* or Internal Server Error, network or fetch. When no word occurs, the    *)
(* text carries the message itself and the status, the code and the type   *)
(* of the Error, each exactly when the Error has the property. A caught    *)
(* value that is no Error gives one text as well, with a generic message.  *)
(***************************************************************************)
Occurs(word, text) ==
    \E i \in 0..(Len(text) - Len(word)) : \A k \in 1..Len(word) : text[i + k] = word[k]

FailureClass(message) ==
    IF Occurs(<<"4", "0", "1">>, message)
       \/ Occurs(<<"U", "n", "a", "u", "t", "h", "o", "r", "i", "z", "e", "d">>, message)
    THEN "unauthorized"
    ELSE IF Occurs(<<"4", "0", "3">>, message)
            \/ Occurs(<<"F", "o", "r", "b", "i", "d", "d", "e", "n">>, message)
    THEN "forbidden"
    ELSE IF Occurs(<<"4", "2", "9">>, message)
            \/ Occurs(<<"r", "a", "t", "e", " ", "l", "i", "m", "i", "t">>, message)
    THEN "rate limit"
    ELSE IF Occurs(<<"5", "0", "0">>, message)
            \/ Occurs(<<"I", "n", "t", "e", "r", "n", "a", "l", " ", "S", "e", "r", "v", "e",
                        "r", " ", "E", "r", "r", "o", "r">>, message)
    THEN "server error"
    ELSE IF Occurs(<<"n", "e", "t", "w", "o", "r", "k">>, message)
            \/ Occurs(<<"f", "e", "t", "c", "h">>, message)
    THEN "network"
    ELSE "other"

Guidance(class) ==
    CASE class = "unauthorized"
           -> "Invalid API key. Please check your v0.dev API key and try again."
      [] class = "forbidden"
           -> "Access denied. Please check your API key permissions or account status."
      [] class = "rate limit" -> "Rate limit exceeded. Please wait a moment and try again."
      [] class = "server error" -> "v0.dev service error. Please try again later."
      [] class = "network"
           -> "Network error. Please check your internet connection and try again."

\* the text carries the label followed by the value
Carries(text, label, value) ==
    \E i \in 1..Len(text) :
        text[i] = label /\ SubSeq(text, i + 1, i + Len(value)) = value

HasLabel(text, label) == \E i \in 1..Len(text) : text[i] = label

C20_OneClassifiedReport ==
    \A e \in Exchanges :
      /\ (~caught[e].isError /\ caught[e].json.t # "none") =>
            /\ pc[e] = "returned"
            /\ Len(SelectSeq(progress[e], IsErrorEvent)) = 1
            /\ Last(progress[e]).index = 0
            /\ Last(progress[e]).value[2] = "Unknown error occurred"
      /\ caught[e].isError =>
        LET reports == SelectSeq(progress[e], IsErrorEvent)
            text == Last(progress[e]).value
            class == FailureClass(caught[e].message)
        IN  /\ pc[e] = "returned"
            /\ Len(reports) = 1
            /\ Last(progress[e]) = reports[1]
            /\ reports[1].index = 0
            /\ class # "other" =>
                  /\ text[2] = Guidance(class)
                  /\ \A other \in {"unauthorized", "forbidden", "rate limit",
                                    "server error", "network"} \ {class} :
                        ~HasLabel(text, Guidance(other))
            /\ class = "other" =>
                  /\ SubSeq(text, 2, 1 + Len(caught[e].message)) = caught[e].message
                  /\ \A c \in {"unauthorized", "forbidden", "rate limit",
                                "server error", "network"} : ~HasLabel(text, Guidance(c))
                  /\ IF caught[e].inStatus
                     THEN Carries(text, "\n- HTTP Status: ", caught[e].status)
                     ELSE ~HasLabel(text, "\n- HTTP Status: ")
                  /\ IF caught[e].inCode
                     THEN Carries(text, "\n- Error Code: ", caught[e].code)
                     ELSE ~HasLabel(text, "\n- Error Code: ")
                  /\ IF caught[e].inType
                     THEN Carries(text, "\n- Type: ", caught[e].type)
                     ELSE ~HasLabel(text, "\n- Type: ")

\* the stream threw "Forbidden (401)" after a chunk of text: the words of two classes
C20_Witness ==
    /\ pc[1] = "returned"
    /\ caught[1].isError
    /\ Occurs(<<"F", "o", "r", "b", "i", "d", "d", "e", "n">>, caught[1].message)
    /\ Occurs(<<"4", "0", "1">>, caught[1].message)
    /\ Len(progress[1]) = 2
    /\ progress[1][1] = TextEvent(0, <<"h">>)
    /\ progress[1][2].value[2]
         = "Invalid API key. Please check your v0.dev API key and try again."

(***************************************************************************)
(* C21: the step that processes a chunk whose finish reason is not         *)
(* tool_calls, and the step in which the stream ends without a finish      *)
(* reason, end the exchange normally: the first reports the text of the    *)
(* chunk and nothing else, the second reports nothing; the exchange has    *)
(* then reported no tool call, no fallback text and no error, whatever its *)
(* pending calls hold, nothing was caught and the pending calls are not    *)
(* looked at again.                                                        *)
(***************************************************************************)
FinishesOtherwise(e) ==
    /\ ProcessesChunk(e)
    /\ Last(consumed'[e]).finish_reason \notin {<<>>, <<"tool_calls">>}

EndsWithoutFinish(e) ==
    /\ pc[e] = "streaming" /\ pc'[e] # "streaming"
    /\ consumed'[e] = consumed[e]
    /\ caught'[e] = caught[e]

C21_NoDrainWithoutToolCallsFinish ==
    [][\A e \in Exchanges :
        /\ FinishesOtherwise(e) =>
              progress'[e] = progress[e] \o TextFragments(<<Last(consumed'[e])>>)
        /\ EndsWithoutFinish(e) => progress'[e] = progress[e]
        /\ (FinishesOtherwise(e) \/ EndsWithoutFinish(e)) =>
              /\ pc'[e] = "returned"
              /\ caught'[e].json.t = "none" /\ ~caught'[e].isError
              /\ toolCallsInProgress'[e] = toolCallsInProgress[e]
              /\ \A k \in 1..Len(progress'[e]) :
                    /\ ~IsToolCallEvent(progress'[e][k])
                    /\ ~IsFallbackEvent(progress'[e][k])
                    /\ ~IsErrorEvent(progress'[e][k])
        /\ pc[e] = "returned" =>
              (pc'[e] = "returned" /\ progress'[e] = progress[e])
      ]_vars

\* the finish reason stop arrived while the pending call of index 0 held an id, a
\* name and argument text that parses
C21_Witness ==
    /\ pc[1] = "returned" /\ ~token[1]
    /\ Len(consumed[1]) = 2
    /\ Last(consumed[1]).finish_reason = <<"stop">>
    /\ PendingComplete(1, 0)
    /\ JSONparse(toolCallsInProgress[1][0].arguments).ok
    /\ progress[1] = <<TextEvent(0, <<"h">>)>>
    /\ caught[1] = NothingCaught

====
